---- MODULE Spec2Model ----
(***************************************************************************)
(* A model of pg8000's wire-protocol translation layer:                    *)
(*   src/pg8000/translate.py  PostgresTranslate (type registry, codecs)    *)
(*   src/pg8000/startup.py    StartupMessage (startup message framer)      *)
(*   src/pg8000/constants.py  Constants                                    *)
(*                                                                         *)
(* Conventions.  Python values are modelled structurally:                  *)
(*   - None is the empty tuple, a present value x is <<x>> (Some(x));      *)
(*   - text (str) is a sequence of code points, bytes a sequence of 0..255;*)
(*   - an unbounded Python int that may exceed 31 bits is a sign-magnitude *)
(*     record [neg, mag] whose magnitude is a big-endian base-256 digit    *)
(*     sequence without leading zeros;                                     *)
(*   - the result of a call is [status, val]: status "ok" carries the      *)
(*     returned value, any other status is the name of the exception that  *)
(*     ended the call.                                                     *)
(* The interpreter modelled is Python 3 (six.PY2 is false).                *)
(***************************************************************************)
EXTENDS Integers, Sequences, FiniteSets, TLC

VARIABLES
    pg_types,         \* PostgresTranslate.pg_types: OID -> [fc, recv]
    py_types,         \* PostgresTranslate.py_types: type key -> [oid, fc, send]
    client_encoding,  \* PostgresTranslate.client_encoding (None or <<name>>)
    lastToggle,       \* history: "none", "integers" or "floats"
    lastUpdate,       \* history: None or <<name>> of the last update_client_encoding
    cls,              \* StartupMessage class-level fields
    args,             \* the arguments of the call under study (pure-function specs)
    last              \* the last call: [op, arg, ret]

vars == <<pg_types, py_types, client_encoding, lastToggle, lastUpdate, cls, args, last>>

(***************************************************************************)
(* Bounds of the model.                                                    *)
(***************************************************************************)
MaxTextLen == 2
MaxExtra == 2

(***************************************************************************)
(* Python helpers.                                                         *)
(***************************************************************************)
None == <<>>
Some(x) == <<x>>

Ok(v) == [status |-> "ok", val |-> v]
Raise(e) == [status |-> e, val |-> None]

RECURSIVE Flatten(_)
Flatten(ss) == IF ss = <<>> THEN <<>> ELSE Head(ss) \o Flatten(Tail(ss))

\* Python's s[offset : offset + length] for 0 <= offset, 0 <= length
Slice(s, offset, length) ==
    LET lo == IF offset > Len(s) THEN Len(s) ELSE offset
        hi == IF offset + length > Len(s) THEN Len(s) ELSE offset + length
    IN  IF hi <= lo THEN <<>> ELSE SubSeq(s, lo + 1, hi)

\* All sequences over S of length 0..n
SeqsUpTo(S, n) == UNION {[1..k -> S] : k \in 0..n}

(***************************************************************************)
(* constants.py                                                            *)
(***************************************************************************)
FC_TEXT == 0
FC_BINARY == 1
VERSION_MAJOR == 3
VERSION_MINOR == 0
\* (VERSION_MINOR << 16) | VERSION_MAJOR: the two halves exchanged
DEFAULT_PROTOCOL_VERSION_swapped == VERSION_MINOR * 65536 + VERSION_MAJOR
\* (VERSION_MAJOR << 16) | VERSION_MINOR
DEFAULT_PROTOCOL_VERSION == VERSION_MAJOR * 65536 + VERSION_MINOR

(***************************************************************************)
(* The decode registry: _establish_postgres_types.  pg_types is a          *)
(* defaultdict: a lookup of a missing key calls the default factory,       *)
(* stores its result under the key and returns it.                         *)
(***************************************************************************)
PgTable ==
    { <<16, FC_BINARY, "bool_recv">>,    <<17, FC_BINARY, "bytea_recv">>,
      <<19, FC_BINARY, "text_recv">>,    <<20, FC_BINARY, "int8_recv">>,
      <<21, FC_BINARY, "int2_recv">>,    <<22, FC_TEXT, "vector_in">>,
      <<23, FC_BINARY, "int4_recv">>,    <<25, FC_BINARY, "text_recv">>,
      <<26, FC_TEXT, "int_in">>,         <<28, FC_TEXT, "int_in">>,
      <<114, FC_TEXT, "json_in">>,       <<700, FC_BINARY, "float4_recv">>,
      <<701, FC_BINARY, "float8_recv">>, <<705, FC_BINARY, "text_recv">>,
      <<829, FC_TEXT, "text_recv">>,     <<869, FC_TEXT, "inet_in">>,
      <<1000, FC_BINARY, "array_recv">>, <<1003, FC_BINARY, "array_recv">>,
      <<1005, FC_BINARY, "array_recv">>, <<1007, FC_BINARY, "array_recv">>,
      <<1009, FC_BINARY, "array_recv">>, <<1014, FC_BINARY, "array_recv">>,
      <<1015, FC_BINARY, "array_recv">>, <<1016, FC_BINARY, "array_recv">>,
      <<1021, FC_BINARY, "array_recv">>, <<1022, FC_BINARY, "array_recv">>,
      <<1042, FC_BINARY, "text_recv">>,  <<1043, FC_BINARY, "text_recv">>,
      <<1082, FC_TEXT, "date_in">>,      <<1083, FC_TEXT, "time_in">>,
      <<1114, FC_BINARY, "timestamp_recv_float">>,
      <<1184, FC_BINARY, "timestamptz_recv_float">>,
      <<1186, FC_BINARY, "interval_recv_integer">>,
      <<1231, FC_TEXT, "num_array_in">>, <<1263, FC_BINARY, "array_recv">>,
      <<1700, FC_TEXT, "numeric_in">>,   <<2275, FC_BINARY, "text_recv">>,
      <<2950, FC_BINARY, "uuid_recv">>,  <<3802, FC_TEXT, "json_in">> }

PgTableOids == {t[1] : t \in PgTable}

\* the dict handed to defaultdict at construction
_establish_postgres_types ==
    [oid \in PgTableOids |->
        LET t == CHOOSE t \in PgTable : t[1] = oid
        IN  [fc |-> t[2], recv |-> t[3]]]

\* a default factory that answers with the binary format
pg_types_default_binary == [fc |-> FC_BINARY, recv |-> "text_recv"]

\* the default factory: lambda: (self.FC_TEXT, self.text_recv)
pg_types_default == [fc |-> FC_TEXT, recv |-> "text_recv"]

\* defaultdict.__missing__ / __getitem__: the table after looking up oid
defaultdict_missing(d, oid) ==
    IF oid \in DOMAIN d THEN d ELSE (oid :> pg_types_default) @@ d

\* the value pg_types[oid] evaluates to
defaultdict_getitem(d, oid) ==
    IF oid \in DOMAIN d THEN d[oid] ELSE pg_types_default

\* d[k] = v
dict_setitem(d, k, v) == (k :> v) @@ d

(***************************************************************************)
(* The encode registry: _establish_python_types (the Python 3 branch).     *)
(* Keys are Python types, modelled by name; the integer keys 1114 and 1184 *)
(* are the strings "1114" and "1184".                                      *)
(***************************************************************************)
PyTable ==
    { <<"NoneType", 0 - 1, FC_BINARY, "null_send">>,
      <<"bool", 16, FC_BINARY, "bool_send">>,
      <<"int", 705, FC_TEXT, "unknown_out">>,
      <<"float", 701, FC_BINARY, "d_pack">>,
      <<"IPv4Address", 869, FC_TEXT, "inet_out">>,
      <<"IPv6Address", 869, FC_TEXT, "inet_out">>,
      <<"IPv4Network", 869, FC_TEXT, "inet_out">>,
      <<"IPv6Network", 869, FC_TEXT, "inet_out">>,
      <<"date", 1082, FC_TEXT, "date_out">>,
      <<"time", 1083, FC_TEXT, "time_out">>,
      <<"1114", 1114, FC_BINARY, "timestamp_send_integer">>,
      <<"1184", 1184, FC_BINARY, "timestamptz_send_integer">>,
      <<"timedelta", 1186, FC_BINARY, "interval_send_integer">>,
      <<"Interval", 1186, FC_BINARY, "interval_send_integer">>,
      <<"Decimal", 1700, FC_TEXT, "numeric_out">>,
      <<"UUID", 2950, FC_BINARY, "uuid_send">>,
      <<"bytes", 17, FC_BINARY, "bytea_send">>,
      <<"str", 705, FC_TEXT, "text_out">> }

PyTableKeys == {t[1] : t \in PyTable}

_establish_python_types ==
    [k \in PyTableKeys |->
        LET t == CHOOSE t \in PyTable : t[1] = k
        IN  [oid |-> t[2], fc |-> t[3], send |-> t[4]]]

(***************************************************************************)
(* The encoding translator: _establish_encoding_hash.                      *)
(***************************************************************************)
encodings ==
    [n \in {"mule_internal", "euc_tw"} |-> None] @@
    ("euc_cn" :> Some("gb2312")) @@
    ("iso_8859_5" :> Some("is8859_5")) @@ ("iso_8859_6" :> Some("is8859_6")) @@
    ("iso_8859_7" :> Some("is8859_7")) @@ ("iso_8859_8" :> Some("is8859_8")) @@
    ("koi8" :> Some("koi8_r")) @@
    ("latin1" :> Some("iso8859-1")) @@ ("latin2" :> Some("iso8859_2")) @@
    ("latin3" :> Some("iso8859_3")) @@ ("latin4" :> Some("iso8859_4")) @@
    ("latin5" :> Some("iso8859_9")) @@ ("latin6" :> Some("iso8859_10")) @@
    ("latin7" :> Some("iso8859_13")) @@ ("latin8" :> Some("iso8859_14")) @@
    ("latin9" :> Some("iso8859_15")) @@
    ("sql_ascii" :> Some("ascii")) @@
    ("win866" :> Some("cp886")) @@ ("win874" :> Some("cp874")) @@
    ("win1250" :> Some("cp1250")) @@ ("win1251" :> Some("cp1251")) @@
    ("win1252" :> Some("cp1252")) @@ ("win1253" :> Some("cp1253")) @@
    ("win1254" :> Some("cp1254")) @@ ("win1255" :> Some("cp1255")) @@
    ("win1256" :> Some("cp1256")) @@ ("win1257" :> Some("cp1257")) @@
    ("win1258" :> Some("cp1258")) @@
    ("unicode" :> Some("utf-8"))

\* dict.get(key, default)
dict_get(d, key, default) == IF key \in DOMAIN d THEN d[key] ELSE default

\* an update that keeps the previous encoding for a name missing from the table
update_keeps_unmapped(current, encoding) ==
    dict_get(encodings, encoding, current)

\* an update that falls back to utf-8 for an unsupported (None) entry
update_unsupported_falls_back(current, encoding) ==
    LET e == dict_get(encodings, encoding, Some(encoding))
    IN  IF e = None THEN Some("utf-8") ELSE e

\* self.encodings.get(encoding, encoding)
update_client_encoding_value(current, encoding) ==
    dict_get(encodings, encoding, Some(encoding))

(***************************************************************************)
(* Python's codec machinery, for the codec names the model can reach.      *)
(* codecs_lookup answers the codec a name denotes ("LookupError" for a     *)
(* name Python does not know, such as cp886).                              *)
(***************************************************************************)
codecs_lookup(name) ==
    CASE name \in {"utf-8", "utf8"} -> "utf_8"
      [] name \in {"iso8859-1"}     -> "latin_1"
      [] name \in {"ascii"}         -> "ascii"
      [] OTHER                      -> "LookupError"

utf_8_encode_char(c) ==
    IF c < 128 THEN <<c>>
    ELSE IF c < 2048 THEN <<192 + (c \div 64), 128 + (c % 64)>>
    ELSE <<224 + (c \div 4096), 128 + ((c \div 64) % 64), 128 + (c % 64)>>

\* str.encode(encoding) of text s
str_encode(s, encoding) ==
    IF encoding = None THEN Raise("TypeError")
    ELSE LET codec == codecs_lookup(encoding[1])
         IN  CASE codec = "LookupError" -> Raise("LookupError")
               [] codec = "utf_8" ->
                    Ok(Flatten([i \in 1..Len(s) |-> utf_8_encode_char(s[i])]))
               [] codec = "latin_1" ->
                    IF \E i \in 1..Len(s) : s[i] > 255
                    THEN Raise("UnicodeEncodeError") ELSE Ok(s)
               [] codec = "ascii" ->
                    IF \E i \in 1..Len(s) : s[i] > 127
                    THEN Raise("UnicodeEncodeError") ELSE Ok(s)

IsCont(b) == b >= 128 /\ b <= 191

\* the strict UTF-8 decoder: None on malformed input, else <<code points>>
RECURSIVE utf_8_decode(_)
utf_8_decode(b) ==
    IF b = <<>> THEN Some(<<>>)
    ELSE LET b1 == b[1]
             n == IF b1 < 128 THEN 1
                  ELSE IF b1 >= 194 /\ b1 <= 223 THEN 2
                  ELSE IF b1 >= 224 /\ b1 <= 239 THEN 3
                  ELSE 0
         IN  IF n = 0 \/ Len(b) < n THEN None
             ELSE IF \E i \in 2..n : ~IsCont(b[i]) THEN None
             ELSE LET cp == IF n = 1 THEN b1
                            ELSE IF n = 2 THEN (b1 - 192) * 64 + (b[2] - 128)
                            ELSE (b1 - 224) * 4096 + (b[2] - 128) * 64 + (b[3] - 128)
                      rest == utf_8_decode(SubSeq(b, n + 1, Len(b)))
                  IN  IF n = 3 /\ (cp < 2048 \/ (cp >= 55296 /\ cp <= 57343)) THEN None
                      ELSE IF rest = None THEN None
                      ELSE Some(<<cp>> \o rest[1])

\* str(b, encoding) / bytes.decode(encoding) of bytes b
bytes_decode(b, encoding) ==
    IF encoding = None THEN Raise("TypeError")
    ELSE LET codec == codecs_lookup(encoding[1])
         IN  CASE codec = "LookupError" -> Raise("LookupError")
               [] codec = "utf_8" ->
                    LET r == utf_8_decode(b)
                    IN  IF r = None THEN Raise("UnicodeDecodeError") ELSE Ok(r[1])
               [] codec = "latin_1" -> Ok(b)
               [] codec = "ascii" ->
                    IF \E i \in 1..Len(b) : b[i] > 127
                    THEN Raise("UnicodeDecodeError") ELSE Ok(b)

(***************************************************************************)
(* Text codecs of the translator that consult the active encoding.         *)
(***************************************************************************)
\* text_out: data.encode(self.client_encoding)
text_out(encoding, data) == str_encode(data, encoding)

\* text_recv: str(data[offset: offset + length], self.client_encoding)
text_recv(encoding, data, offset, length) ==
    bytes_decode(Slice(data, offset, length), encoding)

\* numeric_out: str(number).encode(self.client_encoding); the argument is the
\* decimal text str(number)
numeric_out(encoding, number_str) == str_encode(number_str, encoding)

\* numeric_in: decimal.Decimal(data[offset: offset + length].decode(...)); the
\* value is the decoded decimal text
numeric_in(encoding, data, offset, length) ==
    bytes_decode(Slice(data, offset, length), encoding)

(***************************************************************************)
(* The representation toggles: timestamps_are_integers / _floats.          *)
(***************************************************************************)
\* a float toggle that leaves the interval decoder on the integer codec
timestamps_are_floats_pg_mixed(d) ==
    dict_setitem(
      dict_setitem(d, 1114, [fc |-> FC_BINARY, recv |-> "timestamp_recv_float"]),
      1184, [fc |-> FC_BINARY, recv |-> "timestamptz_recv_float"])

\* an integer toggle that rebuilds the decode table before setting its entries
timestamps_are_integers_pg_rebuild(d) ==
    dict_setitem(
      dict_setitem(
        dict_setitem(_establish_postgres_types,
          1114, [fc |-> FC_BINARY, recv |-> "timestamp_recv_integer"]),
        1184, [fc |-> FC_BINARY, recv |-> "timestamptz_recv_integer"]),
      1186, [fc |-> FC_BINARY, recv |-> "interval_recv_integer"])

timestamps_are_integers_pg(d) ==
    dict_setitem(
      dict_setitem(
        dict_setitem(d, 1114, [fc |-> FC_BINARY, recv |-> "timestamp_recv_integer"]),
        1184, [fc |-> FC_BINARY, recv |-> "timestamptz_recv_integer"]),
      1186, [fc |-> FC_BINARY, recv |-> "interval_recv_integer"])

timestamps_are_integers_py(d) ==
    dict_setitem(
      dict_setitem(
        dict_setitem(
          dict_setitem(d, "1114",
            [oid |-> 1114, fc |-> FC_BINARY, send |-> "timestamp_send_integer"]),
          "1184", [oid |-> 1184, fc |-> FC_BINARY, send |-> "timestamptz_send_integer"]),
        "Interval", [oid |-> 1186, fc |-> FC_BINARY, send |-> "interval_send_integer"]),
      "timedelta", [oid |-> 1186, fc |-> FC_BINARY, send |-> "interval_send_integer"])

timestamps_are_floats_pg(d) ==
    dict_setitem(
      dict_setitem(
        dict_setitem(d, 1114, [fc |-> FC_BINARY, recv |-> "timestamp_recv_float"]),
        1184, [fc |-> FC_BINARY, recv |-> "timestamptz_recv_float"]),
      1186, [fc |-> FC_BINARY, recv |-> "interval_recv_float"])

timestamps_are_floats_py(d) ==
    dict_setitem(
      dict_setitem(
        dict_setitem(
          dict_setitem(d, "1114",
            [oid |-> 1114, fc |-> FC_BINARY, send |-> "timestamp_send_float"]),
          "1184", [oid |-> 1184, fc |-> FC_BINARY, send |-> "timestamptz_send_float"]),
        "Interval", [oid |-> 1186, fc |-> FC_BINARY, send |-> "interval_send_float"]),
      "timedelta", [oid |-> 1186, fc |-> FC_BINARY, send |-> "interval_send_float"])

(***************************************************************************)
(* Inputs of the translator's operations.                                  *)
(***************************************************************************)
\* OIDs the construction-time table does not hold (600 is point, 0 is invalid)
UnknownOids == {0, 600}
\* OIDs looked up: scalars, an array, the three toggled entries, unknown ones
LookupOids == {16, 25, 1007, 1114, 1184, 1186, 1700} \cup UnknownOids

\* server encoding names sent in a PARAMETER_STATUS message
ServerEncodingNames ==
    {"latin1", "sql_ascii", "unicode", "win866", "utf8", "ascii",
     "mule_internal", "euc_tw"}

\* code points: 'a', e-acute, the euro sign
TextChars == {97, 233, 8364}
Texts == SeqsUpTo(TextChars, MaxTextLen)

\* bytes: 'a' and the two bytes of e-acute in UTF-8
ByteVals == {97, 195, 169}
ByteStrings == SeqsUpTo(ByteVals, MaxTextLen)

\* decimal texts: "1" and "1.5"
NumberTexts == {<<49>>, <<49, 46, 53>>}

Called(op, arg, ret) == [op |-> op, arg |-> arg, ret |-> ret]

(***************************************************************************)
(* The translator as a state machine: one action per operation.            *)
(***************************************************************************)
TranslatorInit ==
    /\ pg_types = _establish_postgres_types
    /\ py_types = _establish_python_types
    /\ client_encoding = Some("utf-8")
    /\ lastToggle = "none"
    /\ lastUpdate = None

Init ==
    /\ TranslatorInit
    /\ cls = None
    /\ args = None
    /\ last = Called("__init__", None, Ok(None))

timestamps_are_integers ==
    /\ pg_types' = timestamps_are_integers_pg(pg_types)
    /\ py_types' = timestamps_are_integers_py(py_types)
    /\ lastToggle' = "integers"
    /\ last' = Called("timestamps_are_integers", None, Ok(None))
    /\ UNCHANGED <<client_encoding, lastUpdate, cls, args>>

timestamps_are_floats ==
    /\ pg_types' = timestamps_are_floats_pg(pg_types)
    /\ py_types' = timestamps_are_floats_py(py_types)
    /\ lastToggle' = "floats"
    /\ last' = Called("timestamps_are_floats", None, Ok(None))
    /\ UNCHANGED <<client_encoding, lastUpdate, cls, args>>

update_client_encoding ==
    \E encoding \in ServerEncodingNames :
        /\ client_encoding' = update_client_encoding_value(client_encoding, encoding)
        /\ lastUpdate' = Some(encoding)
        /\ last' = Called("update_client_encoding", encoding, Ok(None))
        /\ UNCHANGED <<pg_types, py_types, lastToggle, cls, args>>

\* self.pg_types[oid], as array_recv and the result-row component evaluate it
pg_types_lookup ==
    \E oid \in LookupOids :
        /\ pg_types' = defaultdict_missing(pg_types, oid)
        /\ last' = Called("pg_types_lookup", oid, Ok(defaultdict_getitem(pg_types, oid)))
        /\ UNCHANGED <<py_types, client_encoding, lastToggle, lastUpdate, cls, args>>

call_text_out ==
    \E data \in Texts :
        /\ last' = Called("text_out", data, text_out(client_encoding, data))
        /\ UNCHANGED <<pg_types, py_types, client_encoding, lastToggle, lastUpdate, cls, args>>

call_text_recv ==
    \E data \in ByteStrings \ {<<>>}, offset \in 0..1, length \in 1..MaxTextLen :
        /\ last' = Called("text_recv", <<data, offset, length>>,
                          text_recv(client_encoding, data, offset, length))
        /\ UNCHANGED <<pg_types, py_types, client_encoding, lastToggle, lastUpdate, cls, args>>

call_numeric_out ==
    \E number_str \in NumberTexts :
        /\ last' = Called("numeric_out", number_str, numeric_out(client_encoding, number_str))
        /\ UNCHANGED <<pg_types, py_types, client_encoding, lastToggle, lastUpdate, cls, args>>

call_numeric_in ==
    \E data \in NumberTexts :
        /\ last' = Called("numeric_in", <<data, 0, Len(data)>>,
                          numeric_in(client_encoding, data, 0, Len(data)))
        /\ UNCHANGED <<pg_types, py_types, client_encoding, lastToggle, lastUpdate, cls, args>>

Next ==
    \/ timestamps_are_integers
    \/ timestamps_are_floats
    \/ update_client_encoding
    \/ pg_types_lookup
    \/ call_text_out
    \/ call_text_recv
    \/ call_numeric_out
    \/ call_numeric_in

Spec == Init /\ [][Next]_vars

(***************************************************************************)
(* Binary primitives: _create_pack_funcs for the format "i" (struct '!i',  *)
(* a big-endian two's complement 32-bit integer).                          *)
(***************************************************************************)
i_pack(n) ==
    IF n >= 0
    THEN <<n \div 16777216, (n \div 65536) % 256, (n \div 256) % 256, n % 256>>
    ELSE LET m == 0 - (n + 1)
         IN  <<255 - (m \div 16777216), 255 - ((m \div 65536) % 256),
               255 - ((m \div 256) % 256), 255 - (m % 256)>>

\* self.null_byte
null_byte == <<0>>

(***************************************************************************)
(* startup.py: Python values handed to the framer are tagged with their    *)
(* type: [t |-> "str" | "bytes" | "NoneType" | "int", v |-> payload].      *)
(***************************************************************************)
PyStr(s) == [t |-> "str", v |-> s]
PyBytes(b) == [t |-> "bytes", v |-> b]
PyNone == [t |-> "NoneType", v |-> <<>>]
PyInt(n) == [t |-> "int", v |-> <<n>>]

\* bool(x)
truthy(x) ==
    CASE x.t = "NoneType" -> FALSE
      [] x.t = "int"      -> x.v[1] # 0
      [] OTHER            -> x.v # <<>>

\* s.encode('utf8')
encode_utf8(s) == Flatten([i \in 1..Len(s) |-> utf_8_encode_char(s[i])])

\* Constants.HOSTNAME, PID, EXECUTABLE: "h", "1", "py" in the modelled process
HOSTNAME == <<104>>
PID == <<49>>
EXECUTABLE == <<112, 121>>
\* "%s_%s_%s" % (HOSTNAME, PID, EXECUTABLE,)
APPLICATION_NAME == HOSTNAME \o <<95>> \o PID \o <<95>> \o EXECUTABLE

\* the literal keys "user", "database", "application_name"
K_user == <<117, 115, 101, 114>>
K_database == <<100, 97, 116, 97, 98, 97, 115, 101>>
K_application_name ==
    <<97, 112, 112, 108, 105, 99, 97, 116, 105, 111, 110, 95, 110, 97, 109, 101>>

\* StartupMessage.make_argument
make_argument(key, value) ==
    LET k == IF key.t = "str" THEN PyBytes(encode_utf8(key.v)) ELSE key
    IN  IF k.t # "bytes" THEN Raise("ProgrammingError")
        ELSE LET v == IF value.t = "str" THEN PyBytes(encode_utf8(value.v)) ELSE value
             IN  IF v.t # "bytes" THEN Raise("ProgrammingError")
                 ELSE Ok(k.v \o null_byte \o v.v \o null_byte)

\* message += cls.make_argument(key, value), for each pair in turn; the first
\* exception ends the call
RECURSIVE append_arguments(_, _)
append_arguments(message, pairs) ==
    IF pairs = <<>> THEN Ok(message)
    ELSE LET a == make_argument(Head(pairs)[1], Head(pairs)[2])
         IN  IF a.status # "ok" THEN a
             ELSE append_arguments(message \o a.val, Tail(pairs))

\* the pairs in the order of the kwargs reversed
startup_pairs_reversed(database, user, application_name, kwargs) ==
    <<(<<PyStr(K_user), user>>)>>
    \o (IF database # PyNone THEN <<(<<PyStr(K_database), database>>)>> ELSE <<>>)
    \o (IF truthy(application_name)
        THEN <<(<<PyStr(K_application_name), application_name>>)>> ELSE <<>>)
    \o [i \in 1..Len(kwargs) |-> kwargs[Len(kwargs) + 1 - i]]

\* the pairs _construct hands to make_argument, in its order (lines 78-87)
startup_pairs(database, user, application_name, kwargs) ==
    <<(<<PyStr(K_user), user>>)>>
    \o (IF database # PyNone THEN <<(<<PyStr(K_database), database>>)>> ELSE <<>>)
    \o (IF truthy(application_name)
        THEN <<(<<PyStr(K_application_name), application_name>>)>> ELSE <<>>)
    \o kwargs

\* protocol_version or constants.Constants.DEFAULT_PROTOCOL_VERSION
protocol_version_or_default(protocol_version) ==
    IF truthy(protocol_version) THEN protocol_version.v[1] ELSE DEFAULT_PROTOCOL_VERSION

\* a frame whose length field leaves out its own four bytes
frame_without_own_length(message) == i_pack(Len(message)) \o message

\* lines 92-98: bytes(translator.i_pack(len(message) + 4) + message)
frame(message) == i_pack(Len(message) + 4) \o message

\* StartupMessage._construct: the value returned (or the exception)
_construct(database, user, protocol_version, encoding, application_name, kwargs) ==
    LET r == append_arguments(
                 i_pack(protocol_version_or_default(protocol_version)),
                 startup_pairs(database, user, application_name, kwargs))
    IN  IF r.status # "ok" THEN r ELSE Ok(frame(r.val \o null_byte))

\* the class-level fields _construct writes (lines 64-70)
_construct_cls(database, user, protocol_version, encoding) ==
    Some([database |-> database, user |-> user,
          protocol_version |-> protocol_version_or_default(protocol_version),
          translator |-> [client_encoding |-> encoding]])

(***************************************************************************)
(* Inputs of the startup framer.                                           *)
(***************************************************************************)
\* "db", "u", "app", "v" and the one-letter keys "o", "k"
S_db == <<100, 98>>
S_u == <<117>>
S_app == <<97, 112, 112>>
S_v == <<118>>

Databases == {PyNone, PyStr(S_db), PyStr(<<233>>), PyInt(5)}
Users == {PyStr(S_u), PyBytes(S_u), PyNone}
ProtocolVersions == {PyNone, PyInt(0), PyInt(131072)}
ClientEncodings == {Some("utf-8"), Some("latin1")}
ApplicationNames == {PyNone, PyStr(<<>>), PyStr(S_app), PyBytes(<<>>), PyInt(0), PyInt(7)}
\* keyword names Python hands over in **kwargs are text; a non-text key of a
\* ** mapping is refused by the call itself (TypeError)
KwKeys == {PyStr(<<111>>), PyStr(<<107>>), PyInt(5)}
KwVals == {PyStr(S_v), PyStr(<<>>), PyInt(5)}
KwPairs == KwKeys \X KwVals
\* keyword arguments in caller order, each key once
KwArgs ==
    {kw \in SeqsUpTo(KwPairs, MaxExtra) :
        \A i, j \in 1..Len(kw) : i # j => kw[i][1] # kw[j][1]}

StartupArgs ==
    [database : Databases, user : Users, protocol_version : ProtocolVersions,
     client_encoding : ClientEncodings, application_name : ApplicationNames,
     kwargs : KwArgs]

(***************************************************************************)
(* The startup framer: the arguments are drawn initially, the actions are  *)
(* the entry points StartupMessage.construct and startup.message.          *)
(***************************************************************************)
InitStartup ==
    /\ TranslatorInit
    /\ cls = None
    /\ args \in {Some(a) : a \in StartupArgs}
    /\ last = Called("idle", None, Ok(None))

construct ==
    LET a == args[1]
        application_name == IF a.application_name = PyNone
                            THEN PyStr(APPLICATION_NAME) ELSE a.application_name
    IN  /\ args # None
        /\ IF \E i \in 1..Len(a.kwargs) : a.kwargs[i][1].t # "str"
           THEN /\ last' = Called("construct", a, Raise("TypeError"))
                /\ cls' = cls
           ELSE /\ last' = Called("construct", a,
                                  _construct(a.database, a.user, a.protocol_version,
                                             a.client_encoding, application_name, a.kwargs))
                /\ cls' = _construct_cls(a.database, a.user, a.protocol_version,
                                         a.client_encoding)
        /\ UNCHANGED <<pg_types, py_types, client_encoding, lastToggle, lastUpdate, args>>

\* startup.message(database, user, application_name=None)
message ==
    LET a == args[1]
    IN  /\ args # None
        /\ last' = Called("message", a,
                          _construct(a.database, a.user, PyNone, Some("utf-8"),
                                     a.application_name, <<>>))
        /\ cls' = _construct_cls(a.database, a.user, PyNone, Some("utf-8"))
        /\ UNCHANGED <<pg_types, py_types, client_encoding, lastToggle, lastUpdate, args>>

NextStartup ==
    \/ construct
    \/ message

SpecStartup == InitStartup /\ [][NextStartup]_vars

(***************************************************************************)
(* Python integers beyond 31 bits: [neg, mag], mag a big-endian base-256   *)
(* digit sequence without leading zeros (zero is [FALSE, <<>>]).           *)
(***************************************************************************)
Last(s) == s[Len(s)]
Front(s) == SubSeq(s, 1, Len(s) - 1)

RECURSIVE Strip(_)
Strip(m) == IF m # <<>> /\ Head(m) = 0 THEN Strip(Tail(m)) ELSE m

RECURSIVE MagFromNat(_)
MagFromNat(n) == IF n = 0 THEN <<>> ELSE MagFromNat(n \div 256) \o <<n % 256>>

RECURSIVE MagToNat(_)
MagToNat(m) == IF m = <<>> THEN 0 ELSE MagToNat(Front(m)) * 256 + Last(m)

\* -1, 0, 1 as a < b, a = b, a > b
RECURSIVE MagCmpSameLen(_, _)
MagCmpSameLen(a, b) ==
    IF a = <<>> THEN 0
    ELSE IF Head(a) < Head(b) THEN 0 - 1
    ELSE IF Head(a) > Head(b) THEN 1
    ELSE MagCmpSameLen(Tail(a), Tail(b))

MagCmp(a, b) ==
    IF Len(a) < Len(b) THEN 0 - 1
    ELSE IF Len(a) > Len(b) THEN 1
    ELSE MagCmpSameLen(a, b)

RECURSIVE MagAddC(_, _, _)
MagAddC(a, b, c) ==
    IF a = <<>> /\ b = <<>> THEN (IF c = 0 THEN <<>> ELSE <<c>>)
    ELSE LET x == (IF a = <<>> THEN 0 ELSE Last(a)) + (IF b = <<>> THEN 0 ELSE Last(b)) + c
         IN  MagAddC(IF a = <<>> THEN a ELSE Front(a),
                     IF b = <<>> THEN b ELSE Front(b), x \div 256) \o <<x % 256>>

MagAdd(a, b) == MagAddC(a, b, 0)

\* a - b for a >= b
RECURSIVE MagSubB(_, _, _)
MagSubB(a, b, borrow) ==
    IF a = <<>> THEN <<>>
    ELSE LET x == Last(a) - (IF b = <<>> THEN 0 ELSE Last(b)) - borrow
         IN  MagSubB(Front(a), IF b = <<>> THEN b ELSE Front(b), IF x < 0 THEN 1 ELSE 0)
             \o <<IF x < 0 THEN x + 256 ELSE x>>

MagSub(a, b) == Strip(MagSubB(a, b, 0))

\* a * m + carry for 0 < m <= 10^6
RECURSIVE MagMulSmallC(_, _, _)
MagMulSmallC(a, m, carry) ==
    IF a = <<>> THEN MagFromNat(carry)
    ELSE LET x == Last(a) * m + carry
         IN  MagMulSmallC(Front(a), m, x \div 256) \o <<x % 256>>

\* <<quotient digits, remainder>> of a by 0 < d <= 10^6, digit by digit
RECURSIVE MagDivModSmallR(_, _, _, _)
MagDivModSmallR(a, d, rem, q) ==
    IF a = <<>> THEN <<Strip(q), rem>>
    ELSE LET x == rem * 256 + Head(a)
         IN  MagDivModSmallR(Tail(a), d, x % d, q \o <<x \div d>>)

MagDivModSmall(a, d) == MagDivModSmallR(a, d, 0, <<>>)

Big(neg, mag) == [neg |-> (neg /\ mag # <<>>), mag |-> mag]
BigFromInt(n) == IF n < 0 THEN Big(TRUE, MagFromNat(0 - n)) ELSE Big(FALSE, MagFromNat(n))
BigToInt(x) == IF x.neg THEN 0 - MagToNat(x.mag) ELSE MagToNat(x.mag)
BigNeg(x) == Big(~x.neg, x.mag)

BigAdd(x, y) ==
    IF x.neg = y.neg THEN Big(x.neg, MagAdd(x.mag, y.mag))
    ELSE IF MagCmp(x.mag, y.mag) >= 0 THEN Big(x.neg, MagSub(x.mag, y.mag))
    ELSE Big(y.neg, MagSub(y.mag, x.mag))

\* x * m for 0 < m <= 10^6
BigMulSmall(x, m) == Big(x.neg, MagMulSmallC(x.mag, m, 0))

\* divmod(x, d) for 0 < d <= 10^6: floor division, 0 <= r < d
BigDivMod(x, d) ==
    LET qr == MagDivModSmall(x.mag, d)
    IN  IF ~x.neg THEN [q |-> Big(FALSE, qr[1]), r |-> qr[2]]
        ELSE IF qr[2] = 0 THEN [q |-> Big(TRUE, qr[1]), r |-> 0]
        ELSE [q |-> Big(TRUE, MagAdd(qr[1], <<1>>)), r |-> d - qr[2]]

(***************************************************************************)
(* struct '!q': a big-endian two's complement 64-bit integer.              *)
(***************************************************************************)
Pad8(m) == [i \in 1..(8 - Len(m)) |-> 0] \o m
Invert(b) == [i \in 1..Len(b) |-> 255 - b[i]]

\* q_pack: struct.error outside -2^63 .. 2^63 - 1
q_pack(x) ==
    IF ~x.neg
    THEN IF Len(x.mag) > 8 \/ (Len(x.mag) = 8 /\ x.mag[1] >= 128)
         THEN Raise("struct.error") ELSE Ok(Pad8(x.mag))
    ELSE LET m == MagSub(x.mag, <<1>>)
         IN  IF Len(m) > 8 \/ (Len(m) = 8 /\ m[1] >= 128)
             THEN Raise("struct.error") ELSE Ok(Invert(Pad8(m)))

\* q_unpack: struct.unpack_from(data, offset)[0]; struct.error when fewer than 8
\* bytes follow offset
q_unpack(data, offset) ==
    IF Len(data) - offset < 8 THEN Raise("struct.error")
    ELSE LET b == SubSeq(data, offset + 1, offset + 8)
         IN  IF b[1] < 128 THEN Ok(Big(FALSE, Strip(b)))
             ELSE Ok(Big(TRUE, MagAdd(Strip(Invert(b)), <<1>>)))

(***************************************************************************)
(* datetime: a datetime.datetime is [ordinal, second, microsecond] (the    *)
(* proleptic Gregorian day number and the second of the day), a            *)
(* datetime.timedelta is its normalised [days, seconds, microseconds].     *)
(***************************************************************************)
MAXORDINAL == 3652059
EPOCH_ORDINAL == 730120
UNIX_EPOCH_ORDINAL == 719163
SECONDS_PER_DAY == 86400
MICROS_PER_SECOND == 1000000

datetime_max == [ordinal |-> MAXORDINAL, second |-> SECONDS_PER_DAY - 1,
                 microsecond |-> MICROS_PER_SECOND - 1]
datetime_min == [ordinal |-> 1, second |-> 0, microsecond |-> 0]
\* self.epoch = datetime.datetime(2000, 1, 1)
epoch == [ordinal |-> EPOCH_ORDINAL, second |-> 0, microsecond |-> 0]
\* self.epoch_seconds = calendar.timegm(self.epoch.timetuple())
epoch_seconds == (EPOCH_ORDINAL - UNIX_EPOCH_ORDINAL) * SECONDS_PER_DAY

\* 2 ** 63
TwoTo63 == Big(FALSE, <<128, 0, 0, 0, 0, 0, 0, 0>>)
\* self.infinity_microseconds = 2 ** 63 - 1
infinity_microseconds == BigAdd(TwoTo63, BigFromInt(0 - 1))
\* self.minus_infinity_microseconds = -1 * self.infinity_microseconds - 1
minus_infinity_microseconds == BigAdd(BigNeg(infinity_microseconds), BigFromInt(0 - 1))

\* datetime.timedelta(microseconds=micros)
timedelta_microseconds(micros) ==
    LET a == BigDivMod(micros, MICROS_PER_SECOND)
        b == BigDivMod(a.q, SECONDS_PER_DAY)
    IN  [days |-> BigToInt(b.q), seconds |-> b.r, microseconds |-> a.r]

\* datetime + timedelta: OverflowError outside datetime.min .. datetime.max
datetime_add(dt, td) ==
    LET us == dt.microsecond + td.microseconds
        s == dt.second + td.seconds + (us \div MICROS_PER_SECOND)
        day == dt.ordinal + td.days + (s \div SECONDS_PER_DAY)
    IN  IF 0 < day /\ day <= MAXORDINAL
        THEN Ok([ordinal |-> day, second |-> s % SECONDS_PER_DAY,
                 microsecond |-> us % MICROS_PER_SECOND])
        ELSE Raise("OverflowError")

\* calendar.timegm(timestamp.timetuple())
timegm(dt) ==
    BigAdd(BigMulSmall(BigFromInt(dt.ordinal - UNIX_EPOCH_ORDINAL), SECONDS_PER_DAY),
           BigFromInt(dt.second))

\* int(seconds * 1e6): the double product is exact for |seconds| * 15625 < 2^53,
\* which holds for every difference of two datetimes (at most 3.2e11 seconds)
int_times_1e6(seconds) == BigMulSmall(seconds, MICROS_PER_SECOND)

\* a decoder that clamps every overflow to the nearer sentinel
timestamp_recv_integer_clamps(data, offset, length) ==
    LET u == q_unpack(data, offset)
    IN  IF u.status # "ok" THEN u
        ELSE LET r == datetime_add(epoch, timedelta_microseconds(u.val))
             IN  IF r.status = "ok" THEN r
                 ELSE IF u.val.neg THEN Ok(datetime_min) ELSE Ok(datetime_max)

\* PostgresTranslate.timestamp_recv_integer
timestamp_recv_integer(data, offset, length) ==
    LET u == q_unpack(data, offset)
    IN  IF u.status # "ok" THEN u
        ELSE LET micros == u.val
                 r == datetime_add(epoch, timedelta_microseconds(micros))
             IN  IF r.status = "ok" THEN r
                 ELSE IF micros = infinity_microseconds THEN Ok(datetime_max)
                 ELSE IF micros = minus_infinity_microseconds THEN Ok(datetime_min)
                 ELSE r

\* PostgresTranslate.timestamp_send_integer
timestamp_send_integer(timestamp) ==
    LET micros ==
            IF timestamp = datetime_max THEN infinity_microseconds
            ELSE IF timestamp = datetime_min THEN minus_infinity_microseconds
            ELSE BigAdd(int_times_1e6(BigAdd(timegm(timestamp),
                                             BigFromInt(0 - epoch_seconds))),
                        BigFromInt(timestamp.microsecond))
    IN  q_pack(micros)

(***************************************************************************)
(* Timezone-aware timestamps: a datetime with tzinfo carries utcoffset,    *)
(* the offset of its timezone from UTC in seconds; tzutc.UTC has offset 0. *)
(***************************************************************************)
\* datetime.replace(tzinfo=None)
replace_tzinfo_none(dt) ==
    [ordinal |-> dt.ordinal, second |-> dt.second, microsecond |-> dt.microsecond]

\* datetime.replace(tzinfo=self.utc): tzutc.UTC.utcoffset is timedelta(0)
replace_tzinfo_utc(dt) ==
    [ordinal |-> dt.ordinal, second |-> dt.second, microsecond |-> dt.microsecond,
     utcoffset |-> 0]

\* datetime.timedelta(seconds=s)
timedelta_seconds(s) ==
    [days |-> s \div SECONDS_PER_DAY, seconds |-> s % SECONDS_PER_DAY, microseconds |-> 0]

\* datetime.astimezone(self.utc): (self - self.utcoffset()).replace(tzinfo=utc),
\* then UTC.fromutc, which adds a zero offset
astimezone_utc(dt) ==
    LET r == datetime_add(replace_tzinfo_none(dt), timedelta_seconds(0 - dt.utcoffset))
    IN  IF r.status = "ok" THEN Ok(replace_tzinfo_utc(r.val)) ELSE r

\* self.epoch_tz, self.datetime_max_tz, self.datetime_min_tz
epoch_tz == replace_tzinfo_utc(epoch)
datetime_max_tz == replace_tzinfo_utc(datetime_max)
datetime_min_tz == replace_tzinfo_utc(datetime_min)

\* a timestamptz encoder that drops the timezone without converting to UTC
timestamptz_send_integer_keeps_local(timestamp) ==
    timestamp_send_integer(replace_tzinfo_none(timestamp))

\* PostgresTranslate.timestamptz_send_integer
timestamptz_send_integer(timestamp) ==
    LET u == astimezone_utc(timestamp)
    IN  IF u.status # "ok" THEN u
        ELSE timestamp_send_integer(replace_tzinfo_none(u.val))

\* PostgresTranslate.timestamptz_recv_integer
timestamptz_recv_integer(data, offset, length) ==
    LET u == q_unpack(data, offset)
    IN  IF u.status # "ok" THEN u
        ELSE LET micros == u.val
                 r == datetime_add(epoch, timedelta_microseconds(micros))
             IN  IF r.status = "ok" THEN Ok(replace_tzinfo_utc(r.val))
                 ELSE IF micros = infinity_microseconds THEN Ok(datetime_max_tz)
                 ELSE IF micros = minus_infinity_microseconds THEN Ok(datetime_min_tz)
                 ELSE r

(***************************************************************************)
(* Inputs of the timestamp codecs.                                         *)
(***************************************************************************)
\* eight wire bytes: values around zero, around the ends of the datetime range
\* and around the ends of the 64-bit range
WirePatterns ==
    {<<b0, m, m, m, m, m, m, b7>> :
        b0 \in {0, 1, 3, 4, 127, 128, 254, 255}, m \in {0, 255}, b7 \in {0, 1, 254, 255}}
    \cup {<<3, 128, 231, 11, 145, 59, 127, 255>>, <<3, 128, 231, 11, 145, 59, 128, 0>>,
          <<255, 31, 226, 255, 197, 156, 96, 0>>, <<255, 31, 226, 255, 197, 156, 95, 255>>}

\* (data, offset, length): the value at offset 0, after one leading byte, or cut short
WireArgs ==
    {[kind |-> "wire", data |-> b, offset |-> 0, length |-> 8] : b \in WirePatterns}
    \cup {[kind |-> "wire", data |-> <<9>> \o b, offset |-> 1, length |-> 8] : b \in WirePatterns}
    \cup {[kind |-> "wire", data |-> Front(b), offset |-> 0, length |-> 7] : b \in WirePatterns}

Timestamps ==
    [ordinal : {1, 2, EPOCH_ORDINAL - 1, EPOCH_ORDINAL, EPOCH_ORDINAL + 1,
                MAXORDINAL - 1, MAXORDINAL},
     second : {0, 1, SECONDS_PER_DAY - 1},
     microsecond : {0, 1, MICROS_PER_SECOND - 1}]

TimestampArgs == {[kind |-> "timestamp", timestamp |-> t] : t \in Timestamps}

\* aware timestamps in three timezones, five hours either side of UTC
UtcOffsets == {0 - 18000, 0, 18000}
AwareTimestamps ==
    [ordinal : {1, 2, EPOCH_ORDINAL, MAXORDINAL},
     second : {0, 18000, 68400, SECONDS_PER_DAY - 1},
     microsecond : {0, MICROS_PER_SECOND - 1},
     utcoffset : UtcOffsets]

AwareArgs == {[kind |-> "aware", timestamp |-> t] : t \in AwareTimestamps}

(***************************************************************************)
(* The integer timestamp codec applied to the drawn arguments.             *)
(***************************************************************************)
InitTimestamp ==
    /\ TranslatorInit
    /\ cls = None
    /\ args \in {Some(a) : a \in WireArgs \cup TimestampArgs \cup AwareArgs}
    /\ last = Called("idle", None, Ok(None))

call_timestamp_recv_integer ==
    /\ args # None /\ args[1].kind = "wire"
    /\ last' = Called("timestamp_recv_integer", args[1],
                      timestamp_recv_integer(args[1].data, args[1].offset, args[1].length))
    /\ UNCHANGED <<pg_types, py_types, client_encoding, lastToggle, lastUpdate, cls, args>>

call_timestamp_send_integer ==
    /\ args # None /\ args[1].kind = "timestamp"
    /\ last' = Called("timestamp_send_integer", args[1],
                      timestamp_send_integer(args[1].timestamp))
    /\ UNCHANGED <<pg_types, py_types, client_encoding, lastToggle, lastUpdate, cls, args>>

call_timestamptz_recv_integer ==
    /\ args # None /\ args[1].kind = "wire"
    /\ last' = Called("timestamptz_recv_integer", args[1],
                      timestamptz_recv_integer(args[1].data, args[1].offset, args[1].length))
    /\ UNCHANGED <<pg_types, py_types, client_encoding, lastToggle, lastUpdate, cls, args>>

call_timestamptz_send_integer ==
    /\ args # None /\ args[1].kind = "aware"
    /\ last' = Called("timestamptz_send_integer", args[1],
                      timestamptz_send_integer(args[1].timestamp))
    /\ UNCHANGED <<pg_types, py_types, client_encoding, lastToggle, lastUpdate, cls, args>>

\* the bytes an encoder has just produced come back and are decoded
Sent ==
    [kind |-> "sent", data |-> last.ret.val, offset |-> 0, length |-> Len(last.ret.val),
     timestamp |-> last.arg.timestamp]

recv_sent_timestamp ==
    /\ last.op = "timestamp_send_integer" /\ last.ret.status = "ok"
    /\ last' = Called("timestamp_recv_integer", Sent,
                      timestamp_recv_integer(last.ret.val, 0, Len(last.ret.val)))
    /\ UNCHANGED <<pg_types, py_types, client_encoding, lastToggle, lastUpdate, cls, args>>

recv_sent_timestamptz ==
    /\ last.op = "timestamptz_send_integer" /\ last.ret.status = "ok"
    /\ last' = Called("timestamptz_recv_integer", Sent,
                      timestamptz_recv_integer(last.ret.val, 0, Len(last.ret.val)))
    /\ UNCHANGED <<pg_types, py_types, client_encoding, lastToggle, lastUpdate, cls, args>>

NextTimestamp ==
    \/ call_timestamp_recv_integer
    \/ call_timestamp_send_integer
    \/ call_timestamptz_recv_integer
    \/ call_timestamptz_send_integer
    \/ recv_sent_timestamp
    \/ recv_sent_timestamptz

SpecTimestamp == InitTimestamp /\ [][NextTimestamp]_vars

(***************************************************************************)
(* Scalar codecs.  A Python bool is [t |-> "bool", v |-> <<b>>].           *)
(***************************************************************************)
PyBool(b) == [t |-> "bool", v |-> <<b>>]

\* self.true = six.b("\x01")
true == <<1>>

\* PostgresTranslate.bool_send: return self.true if value else false; no name
\* false is defined in the module, so the else branch raises NameError
bool_send(value) == IF value.v[1] THEN Ok(true) ELSE Raise("NameError")

\* bool_recv: data[offset] == 1
bool_recv(data, offset, length) ==
    IF offset >= Len(data) THEN Raise("IndexError")
    ELSE Ok(PyBool(data[offset + 1] = 1))

(***************************************************************************)
(* Fixed-width decoders.  A decoded integer is [t |-> "int", big |-> x]    *)
(* with x as Python integers beyond 31 bits are held; a decoded float is   *)
(* identified by the IEEE-754 bytes it was unpacked from.                  *)
(***************************************************************************)
PyBigInt(x) == [t |-> "int", big |-> x]
PyFloat(fmt, bits) == [t |-> "float", fmt |-> fmt, bits |-> bits]

\* struct.Struct('!h' / '!i' / '!q').unpack_from(data, offset)[0] for width 2, 4, 8
\* (a negative offset counts from the end of data)
int_unpack(width, data, offset) ==
    LET start == IF offset < 0 THEN offset + Len(data) ELSE offset
    IN  IF start < 0 \/ Len(data) - start < width THEN Raise("struct.error")
        ELSE LET b == SubSeq(data, start + 1, start + width)
             IN  IF b[1] < 128 THEN Ok(Big(FALSE, Strip(b)))
                 ELSE Ok(Big(TRUE, MagAdd(Strip(Invert(b)), <<1>>)))

h_unpack(data, offset) == int_unpack(2, data, offset)
i_unpack(data, offset) == int_unpack(4, data, offset)

\* struct.Struct('!f' / '!d').unpack_from(data, offset)[0] for width 4, 8
float_unpack(fmt, width, data, offset) ==
    IF Len(data) - offset < width THEN Raise("struct.error")
    ELSE Ok(PyFloat(fmt, SubSeq(data, offset + 1, offset + width)))

IntResult(u) == IF u.status = "ok" THEN Ok(PyBigInt(u.val)) ELSE u

int8_recv(data, offset, length) == IntResult(q_unpack(data, offset))
int2_recv(data, offset, length) == IntResult(h_unpack(data, offset))
int4_recv(data, offset, length) == IntResult(i_unpack(data, offset))
float4_recv(data, offset, length) == float_unpack("f", 4, data, offset)
float8_recv(data, offset, length) == float_unpack("d", 8, data, offset)

\* iii_unpack, ii_unpack: struct.error unless all fields follow offset
iii_unpack(data, offset) ==
    IF Len(data) - offset < 12 THEN Raise("struct.error")
    ELSE Ok(<<BigToInt(i_unpack(data, offset).val), BigToInt(i_unpack(data, offset + 4).val),
              BigToInt(i_unpack(data, offset + 8).val)>>)

ii_unpack(data, offset) ==
    IF Len(data) - offset < 8 THEN Raise("struct.error")
    ELSE Ok(<<BigToInt(i_unpack(data, offset).val), BigToInt(i_unpack(data, offset + 4).val)>>)

(***************************************************************************)
(* Arrays.  A Python list is [t |-> "list", items |-> <<elements>>], a str *)
(* leaf PyStr, an int leaf PyBigInt, a null leaf PyNone.                   *)
(***************************************************************************)
PyList(elems) == [t |-> "list", items |-> elems]

\* the decoder a registry entry names, applied to an element
conversion(recv, encoding, data, offset, length) ==
    CASE recv = "int2_recv" -> int2_recv(data, offset, length)
      [] recv = "int4_recv" -> int4_recv(data, offset, length)
      [] recv = "int8_recv" -> int8_recv(data, offset, length)
      [] recv = "bool_recv" -> bool_recv(data, offset, length)
      [] recv = "text_recv" ->
            LET r == text_recv(encoding, data, offset, length)
            IN  IF r.status = "ok" THEN Ok(PyStr(r.val)) ELSE r

\* the dimension lengths read by array_recv: [status, val, offset]
RECURSIVE read_dim_lengths(_, _, _, _)
read_dim_lengths(data, offset, dim, acc) ==
    IF dim <= 0 THEN [status |-> "ok", val |-> acc, offset |-> offset]
    ELSE LET u == ii_unpack(data, offset)
         IN  IF u.status # "ok" THEN [status |-> u.status, val |-> None, offset |-> offset]
             ELSE read_dim_lengths(data, offset + 8, dim - 1, Append(acc, u.val[1]))

\* the element loop of array_recv: while offset < final_idx
RECURSIVE read_values(_, _, _, _, _, _)
read_values(recv, encoding, data, offset, final_idx, acc) ==
    IF ~(offset < final_idx) THEN Ok(acc)
    ELSE LET u == i_unpack(data, offset)
         IN  IF u.status # "ok" THEN u
             ELSE LET element_len == BigToInt(u.val)
                  IN  IF element_len = 0 - 1
                      THEN read_values(recv, encoding, data, offset + 4, final_idx,
                                       Append(acc, PyNone))
                      ELSE LET c == conversion(recv, encoding, data, offset + 4, element_len)
                           IN  IF c.status # "ok" THEN c
                               ELSE read_values(recv, encoding, data, offset + 4 + element_len,
                                                final_idx, Append(acc, c.val))

\* list(map(list, zip(*[iter(values)] * length))): consecutive groups of length
\* elements, an incomplete last group dropped; no group at all for length 0
zip_groups(values, length) ==
    IF length <= 0 THEN <<>>
    ELSE [g \in 1..(Len(values) \div length) |->
            PyList(SubSeq(values, (g - 1) * length + 1, g * length))]

\* for length in dim_lengths[1:]: the fix-up taking the dimensions outermost first
RECURSIVE fix_up_forward(_, _)
fix_up_forward(values, dims) ==
    IF Len(dims) <= 1 THEN values
    ELSE fix_up_forward(zip_groups(values, dims[2]), <<dims[1]>> \o SubSeq(dims, 3, Len(dims)))

\* for length in reversed(dim_lengths[1:]): values = zip_groups(values, length)
RECURSIVE fix_up(_, _)
fix_up(values, dims) ==
    IF Len(dims) <= 1 THEN values
    ELSE fix_up(zip_groups(values, Last(dims)), Front(dims))

\* PostgresTranslate.array_recv, given the decode registry d
array_recv(d, encoding, data, offset, length) ==
    LET final_idx == offset + length
        hdr == iii_unpack(data, offset)
    IN  IF hdr.status # "ok" THEN hdr
        ELSE LET recv == defaultdict_getitem(d, hdr.val[3]).recv
                 dl == read_dim_lengths(data, offset + 12, hdr.val[1], <<>>)
             IN  IF dl.status # "ok" THEN Raise(dl.status)
                 ELSE LET vs == read_values(recv, encoding, data, dl.offset, final_idx, <<>>)
                      IN  IF vs.status # "ok" THEN vs
                          ELSE Ok(PyList(fix_up(vs.val, dl.val)))

\* PostgresTranslate.inspect_array: its first statement calls
\* self.flatten_array(value); the class defines array_flatten and no
\* flatten_array, so the attribute lookup raises before anything else runs
inspect_array(value) == Raise("AttributeError")

(***************************************************************************)
(* Runs of 16-bit integers: _create_pack_shorts.                           *)
(***************************************************************************)
\* max_pack_shorts_count=20 in the signature of __init__
max_pack_shorts_count_default == 20

\* the keys of self.pack_shorts and self.unpack_shorts:
\* for index in range(1, self.max_pack_shorts_count)
pack_shorts_keys(max_pack_shorts_count) == 1..(max_pack_shorts_count - 1)

\* struct '!h' of one value
h_pack_bytes(v) == IF v >= 0 THEN <<v \div 256, v % 256>>
                   ELSE <<(v + 65536) \div 256, (v + 65536) % 256>>

\* struct.Struct('!' + index * 'h').pack(*values)
shorts_pack(index, values) ==
    IF Len(values) # index THEN Raise("struct.error")
    ELSE IF \E i \in 1..Len(values) : values[i] < 0 - 32768 \/ values[i] > 32767
    THEN Raise("struct.error")
    ELSE Ok(Flatten([i \in 1..Len(values) |-> h_pack_bytes(values[i])]))

\* struct.Struct('!' + index * 'h').unpack_from(data, offset)
shorts_unpack(index, data, offset) ==
    IF Len(data) - offset < 2 * index THEN Raise("struct.error")
    ELSE Ok([i \in 1..index |-> BigToInt(h_unpack(data, offset + 2 * (i - 1)).val)])

\* PostgresTranslate(max_pack_shorts_count=n).pack_shorts[index](*values)
pack_shorts(n, index, values) ==
    IF index \notin pack_shorts_keys(n) THEN Raise("KeyError")
    ELSE shorts_pack(index, values)

\* PostgresTranslate(max_pack_shorts_count=n).unpack_shorts[index](data, offset)
unpack_shorts(n, index, data, offset) ==
    IF index \notin pack_shorts_keys(n) THEN Raise("KeyError")
    ELSE shorts_unpack(index, data, offset)

(***************************************************************************)
(* Inputs of the scalar codecs.                                            *)
(***************************************************************************)
BoolArgs == {[kind |-> "bool", value |-> PyBool(b)] : b \in BOOLEAN}

BoolWire == SeqsUpTo({0, 1, 2}, 2)
BoolWireArgs ==
    {[kind |-> "boolwire", data |-> d, offset |-> o, length |-> 1] :
        d \in BoolWire, o \in 0..2}

\* buffers for the fixed-width decoders: 2, 4 and 8 byte values, alone, followed
\* by another byte, and too short; 1.0 and pi as doubles
FixedWire ==
    {<<>>, <<0>>, <<0, 1>>, <<255, 255>>, <<0, 0, 0, 1>>, <<0, 0, 1, 0, 7>>,
     <<255, 255, 255, 254>>, <<0, 0, 0, 0, 0, 0, 0, 1>>, <<0, 0, 0, 0, 0, 0, 0, 1, 9>>,
     <<63, 240, 0, 0, 0, 0, 0, 0>>, <<64, 9, 33, 251, 84, 68, 45, 24>>}

FixedWireArgs ==
    {[kind |-> "fixedwire", data |-> d, offset |-> o, length |-> n] :
        d \in FixedWire, o \in {0, 1}, n \in {0, 2, 4, 8}}

\* array values handed to inspect_array
IntLeaf(n) == PyBigInt(BigFromInt(n))
Pow2(mag) == Big(FALSE, mag)
TwoTo15 == Pow2(<<128, 0>>)
TwoTo31 == Pow2(<<128, 0, 0, 0>>)
IntBoundaries ==
    {BigFromInt(1), BigFromInt(0 - 1),
     BigAdd(TwoTo15, BigFromInt(0 - 1)), TwoTo15,
     BigNeg(TwoTo15), BigAdd(BigNeg(TwoTo15), BigFromInt(0 - 1)),
     BigAdd(TwoTo31, BigFromInt(0 - 1)), TwoTo31,
     BigNeg(TwoTo31), BigAdd(BigNeg(TwoTo31), BigFromInt(0 - 1)),
     BigAdd(TwoTo63, BigFromInt(0 - 1)), TwoTo63,
     BigNeg(TwoTo63), BigAdd(BigNeg(TwoTo63), BigFromInt(0 - 1))}

Array2x3 == PyList(<<PyList(<<IntLeaf(1), IntLeaf(2), IntLeaf(3)>>),
                     PyList(<<IntLeaf(4), IntLeaf(5), IntLeaf(6)>>)>>)
ArrayTextNull == PyList(<<PyStr(<<97>>), PyNone>>)
ArrayEmpty == PyList(<<>>)
ArrayNestedEmpty == PyList(<<PyList(<<>>)>>)
ArrayMixed == PyList(<<IntLeaf(1), PyStr(<<97>>)>>)
ArrayRagged == PyList(<<PyList(<<IntLeaf(1)>>), PyList(<<IntLeaf(2), IntLeaf(3)>>)>>)

Arrays ==
    {Array2x3, ArrayTextNull, ArrayEmpty, ArrayNestedEmpty, ArrayMixed, ArrayRagged}
    \cup {PyList(<<PyBigInt(x)>>) : x \in IntBoundaries}
    \cup {PyList(<<IntLeaf(1), PyNone, PyBigInt(x)>>) : x \in IntBoundaries}

ArrayArgs == {[kind |-> "array", value |-> a] : a \in Arrays}

\* binary arrays as the server sends them: dimensions, null flag, element oid,
\* (length, lower bound) per dimension, then (length, bytes) per element
WireHeader(dims, hasnull, oid) ==
    i_pack(Len(dims)) \o i_pack(hasnull) \o i_pack(oid)
    \o Flatten([k \in 1..Len(dims) |-> i_pack(dims[k]) \o i_pack(1)])
WireElement(b) == i_pack(Len(b)) \o b
WireNull == i_pack(0 - 1)

Wire2x3 ==
    WireHeader(<<2, 3>>, 0, 23)
    \o Flatten([k \in 1..6 |-> WireElement(<<0, 0, 0, k>>)])
WireTextNull == WireHeader(<<2>>, 1, 25) \o WireElement(<<97>>) \o WireNull
WireInt2 == WireHeader(<<2>>, 0, 21) \o WireElement(<<0, 1>>) \o WireElement(<<255, 254>>)
WireInt8 == WireHeader(<<1>>, 0, 20) \o WireElement(<<0, 0, 1, 0, 0, 0, 0, 0>>)
WireUnknown == WireHeader(<<1>>, 0, 600) \o WireElement(<<97>>)
WireNoDims == WireHeader(<<>>, 0, 23)
ArrayWire == {Wire2x3, WireTextNull, WireInt2, WireInt8, WireUnknown, WireNoDims}

\* each array whole, after a leading byte, followed by bytes beyond the
\* declared length, declared shorter than it is, cut short, and with the last
\* byte of its last element changed
ArrayWireArgs ==
    {[kind |-> "arraywire", data |-> w, offset |-> 0, length |-> Len(w)] : w \in ArrayWire}
    \cup {[kind |-> "arraywire", data |-> <<9>> \o w, offset |-> 1, length |-> Len(w)] :
            w \in ArrayWire}
    \cup {[kind |-> "arraywire", data |-> w \o <<0, 0, 0, 1, 5>>, offset |-> 0,
           length |-> Len(w)] : w \in ArrayWire}
    \cup {[kind |-> "arraywire", data |-> w, offset |-> 0, length |-> Len(w) - n] :
            w \in ArrayWire, n \in 1..6}
    \cup {[kind |-> "arraywire", data |-> SubSeq(w, 1, Len(w) - n), offset |-> 0,
           length |-> Len(w)] : w \in ArrayWire, n \in 1..6}
    \cup {[kind |-> "arraywire", data |-> Front(w) \o <<(Last(w) + 1) % 256>>, offset |-> 0,
           length |-> Len(w) - n] : w \in ArrayWire \ {WireTextNull, WireNoDims}, n \in 0..6}

\* translators built with a small count and with the default, asked for the
\* run lengths around the count, with one value too few, right and too many
ShortsCounts == {1, 2, 3, max_pack_shorts_count_default}
ShortsRun(count) == [i \in 1..count |-> IF i = 1 THEN 0 - 2 ELSE i]
ShortsArgs ==
    {a \in {[kind |-> "shorts", n |-> n, index |-> k, values |-> ShortsRun(c)] :
                n \in ShortsCounts,
                k \in {1, 2, max_pack_shorts_count_default - 1, max_pack_shorts_count_default},
                c \in 0..(max_pack_shorts_count_default + 1)} :
        /\ a.index <= a.n + 1
        /\ Len(a.values) >= a.index - 1 /\ Len(a.values) <= a.index + 1}

ShortsWireArgs ==
    {[kind |-> "shortswire", n |-> a.n, index |-> a.index,
      data |-> Flatten([i \in 1..Len(a.values) |-> h_pack_bytes(a.values[i])]),
      offset |-> 0] : a \in ShortsArgs}

CodecArgs ==
    BoolArgs \cup BoolWireArgs \cup FixedWireArgs \cup ArrayArgs \cup ArrayWireArgs
    \cup ShortsArgs \cup ShortsWireArgs

(***************************************************************************)
(* The scalar codecs applied to the drawn arguments.                       *)
(***************************************************************************)
InitCodec ==
    /\ TranslatorInit
    /\ cls = None
    /\ args \in {Some(a) : a \in CodecArgs}
    /\ last = Called("idle", None, Ok(None))

call_bool_send ==
    /\ args # None /\ args[1].kind = "bool"
    /\ last' = Called("bool_send", args[1], bool_send(args[1].value))
    /\ UNCHANGED <<pg_types, py_types, client_encoding, lastToggle, lastUpdate, cls, args>>

call_bool_recv ==
    /\ args # None /\ args[1].kind = "boolwire"
    /\ last' = Called("bool_recv", args[1],
                      bool_recv(args[1].data, args[1].offset, args[1].length))
    /\ UNCHANGED <<pg_types, py_types, client_encoding, lastToggle, lastUpdate, cls, args>>

\* the byte bool_send has just produced comes back and is decoded
recv_sent_bool ==
    /\ last.op = "bool_send" /\ last.ret.status = "ok"
    /\ last' = Called("bool_recv",
                      [kind |-> "sent", data |-> last.ret.val, offset |-> 0, length |-> 1,
                       value |-> last.arg.value],
                      bool_recv(last.ret.val, 0, 1))
    /\ UNCHANGED <<pg_types, py_types, client_encoding, lastToggle, lastUpdate, cls, args>>

FixedArg == args # None /\ args[1].kind = "fixedwire"
UnchangedByCodec == UNCHANGED <<pg_types, py_types, client_encoding, lastToggle, lastUpdate, cls, args>>

call_int2_recv ==
    /\ FixedArg
    /\ last' = Called("int2_recv", args[1],
                      int2_recv(args[1].data, args[1].offset, args[1].length))
    /\ UnchangedByCodec

call_int4_recv ==
    /\ FixedArg
    /\ last' = Called("int4_recv", args[1],
                      int4_recv(args[1].data, args[1].offset, args[1].length))
    /\ UnchangedByCodec

call_int8_recv ==
    /\ FixedArg
    /\ last' = Called("int8_recv", args[1],
                      int8_recv(args[1].data, args[1].offset, args[1].length))
    /\ UnchangedByCodec

call_float4_recv ==
    /\ FixedArg
    /\ last' = Called("float4_recv", args[1],
                      float4_recv(args[1].data, args[1].offset, args[1].length))
    /\ UnchangedByCodec

call_float8_recv ==
    /\ FixedArg
    /\ last' = Called("float8_recv", args[1],
                      float8_recv(args[1].data, args[1].offset, args[1].length))
    /\ UnchangedByCodec

call_inspect_array ==
    /\ args # None /\ args[1].kind = "array"
    /\ last' = Called("inspect_array", args[1], inspect_array(args[1].value))
    /\ UnchangedByCodec

\* array_recv looks the element oid up in the decode registry once the header is read
call_array_recv ==
    /\ args # None /\ args[1].kind = "arraywire"
    /\ LET a == args[1]
           hdr == iii_unpack(a.data, a.offset)
       IN  /\ last' = Called("array_recv", a,
                             array_recv(pg_types, client_encoding, a.data, a.offset, a.length))
           /\ pg_types' = IF hdr.status = "ok" THEN defaultdict_missing(pg_types, hdr.val[3])
                          ELSE pg_types
    /\ UNCHANGED <<py_types, client_encoding, lastToggle, lastUpdate, cls, args>>

\* PostgresTranslate(max_pack_shorts_count=n), then pack_shorts[index](*values)
call_pack_shorts ==
    /\ args # None /\ args[1].kind = "shorts"
    /\ last' = Called("pack_shorts", args[1],
                      pack_shorts(args[1].n, args[1].index, args[1].values))
    /\ UnchangedByCodec

\* PostgresTranslate(max_pack_shorts_count=n), then unpack_shorts[index](data, offset)
call_unpack_shorts ==
    /\ args # None /\ args[1].kind = "shortswire"
    /\ last' = Called("unpack_shorts", args[1],
                      unpack_shorts(args[1].n, args[1].index, args[1].data, args[1].offset))
    /\ UnchangedByCodec

NextCodec ==
    \/ call_pack_shorts
    \/ call_unpack_shorts
    \/ call_bool_send
    \/ call_bool_recv
    \/ recv_sent_bool
    \/ call_int2_recv
    \/ call_int4_recv
    \/ call_int8_recv
    \/ call_float4_recv
    \/ call_float8_recv
    \/ call_inspect_array
    \/ call_array_recv

SpecCodec == InitCodec /\ [][NextCodec]_vars

(***************************************************************************)
(* The encoder resolver.  A datetime value is [t |-> "datetime", dt |-> d] *)
(* with d a timestamp as above, aware exactly when it carries utcoffset.   *)
(***************************************************************************)
PyDatetime(d) == [t |-> "datetime", dt |-> d]
PyDict == [t |-> "dict", v |-> <<>>]

\* an inspect_datetime that does not look at tzinfo
inspect_datetime_ignores_tzinfo(py, value) == py["1114"]

\* PostgresTranslate.inspect_datetime
inspect_datetime(py, value) ==
    IF "utcoffset" \notin DOMAIN value.dt THEN py["1114"] ELSE py["1184"]

\* PostgresTranslate.get_translator_for_complex_type; its last statement names
\* NotSupportedError, which the module does not define
get_translator_for_complex_type(py, value) ==
    IF value.t = "datetime" THEN Ok(inspect_datetime(py, value))
    ELSE IF value.t \in {"list", "tuple"} THEN inspect_array(value)
    ELSE Raise("NameError")

\* PostgresTranslate.get_translators
RECURSIVE get_translators(_, _)
get_translators(py, values) ==
    IF values = <<>> THEN Ok(<<>>)
    ELSE LET value == Head(values)
             translator == IF value.t \in DOMAIN py THEN Ok(py[value.t])
                           ELSE get_translator_for_complex_type(py, value)
         IN  IF translator.status # "ok" THEN translator
             ELSE LET rest == get_translators(py, Tail(values))
                  IN  IF rest.status # "ok" THEN rest
                      ELSE Ok(<<translator.val>> \o rest.val)

\* parameter values: datetimes without and with a timezone, values of mapped
\* types, a list and a dict
ParameterValues ==
    {PyDatetime(epoch), PyDatetime(datetime_max), PyDatetime(epoch_tz),
     PyDatetime([ordinal |-> 2, second |-> 0, microsecond |-> 0, utcoffset |-> 18000]),
     PyStr(<<97>>), PyNone, Array2x3, PyDict}
ParameterRows == {<<v>> : v \in ParameterValues} \cup (ParameterValues \X ParameterValues)

call_get_translators ==
    \E values \in ParameterRows :
        /\ last' = Called("get_translators", values, get_translators(py_types, values))
        /\ UNCHANGED <<pg_types, py_types, client_encoding, lastToggle, lastUpdate, cls, args>>

NextResolver ==
    \/ timestamps_are_integers
    \/ timestamps_are_floats
    \/ call_get_translators

SpecResolver == Init /\ [][NextResolver]_vars

(***************************************************************************)
(* Doubles.  A double is identified by its eight IEEE-754 bytes (PyFloat); *)
(* its arithmetic is modelled exactly for NaN, the infinities, zero and    *)
(* the finite doubles that are whole multiples of 1/64 below 2^40 in       *)
(* magnitude, on which every sum and product taken by the codecs below is  *)
(* exact.  Such a value is held as its signed count of sixty-fourths.      *)
(***************************************************************************)
RECURSIVE StripBits(_)
StripBits(bits) == IF bits # <<>> /\ Head(bits) = 0 THEN StripBits(Tail(bits)) ELSE bits

ByteBits(b) ==
    <<b \div 128, (b \div 64) % 2, (b \div 32) % 2, (b \div 16) % 2,
      (b \div 8) % 2, (b \div 4) % 2, (b \div 2) % 2, b % 2>>

BitsByte(bits) ==
    bits[1] * 128 + bits[2] * 64 + bits[3] * 32 + bits[4] * 16 +
    bits[5] * 8 + bits[6] * 4 + bits[7] * 2 + bits[8]

Zeros(n) == [i \in 1..n |-> 0]

\* the binary digits of a magnitude, most significant first, and back
MagBits(m) == StripBits(Flatten([i \in 1..Len(m) |-> ByteBits(m[i])]))
BitsMag(bits) ==
    LET padded == Zeros((8 - (Len(bits) % 8)) % 8) \o bits
    IN  Strip([i \in 1..(Len(padded) \div 8) |-> BitsByte(SubSeq(padded, 8 * i - 7, 8 * i))])

float_negative(bits) == bits[1] >= 128
float_exponent(bits) == (bits[1] % 128) * 16 + (bits[2] \div 16)
float_fraction(bits) == SubSeq(ByteBits(bits[2]), 5, 8) \o Flatten([i \in 1..6 |-> ByteBits(bits[i + 2])])
isnan(bits) == float_exponent(bits) = 2047 /\ StripBits(float_fraction(bits)) # <<>>
isinf(bits) == float_exponent(bits) = 2047 /\ StripBits(float_fraction(bits)) = <<>>
iszero(bits) == float_exponent(bits) = 0 /\ StripBits(float_fraction(bits)) = <<>>

\* the bits of the 53-bit significand that lie below 1/64
float_below_sixtyfourth(bits) ==
    LET e == float_exponent(bits)
        significand == <<1>> \o float_fraction(bits)
    IN  IF e >= 1069 THEN <<>>
        ELSE IF 1069 - e >= 53 THEN significand
        ELSE SubSeq(significand, 53 - (1069 - e) + 1, 53)

\* the doubles whose arithmetic is modelled
float_modelled(bits) ==
    \/ float_exponent(bits) = 2047
    \/ iszero(bits)
    \/ /\ float_exponent(bits) > 0
       /\ float_exponent(bits) < 1023 + 40
       /\ StripBits(float_below_sixtyfourth(bits)) = <<>>

\* a finite double in sixty-fourths: significand * 2 ** (exponent - 1075) * 64
float_sixtyfourths(bits) ==
    LET e == float_exponent(bits)
        significand == <<1>> \o float_fraction(bits)
        scaled == IF e >= 1069 THEN significand \o Zeros(e - 1069)
                  ELSE IF 1069 - e >= 53 THEN <<>>
                  ELSE SubSeq(significand, 1, 53 - (1069 - e))
    IN  IF e = 0 THEN Big(FALSE, <<>>)
        ELSE Big(float_negative(bits), BitsMag(scaled))

\* the bytes of the double that is x sixty-fourths, for |x| < 2^53
float_from_sixtyfourths(x) ==
    LET bits == MagBits(x.mag)
        e == Len(bits) - 1 - 6 + 1023
        exponent == SubSeq(ByteBits(e \div 256), 6, 8) \o ByteBits(e % 256)
        all == <<IF x.neg THEN 1 ELSE 0>> \o exponent \o Tail(bits) \o Zeros(52 - (Len(bits) - 1))
    IN  IF x.mag = <<>> THEN Zeros(8)
        ELSE [i \in 1..8 |-> BitsByte(SubSeq(all, 8 * i - 7, 8 * i))]

\* float(n) for an integer n: the nearest double, ties to even, as an integer
float_of_int(n) ==
    LET bits == MagBits(n.mag)
        kept == SubSeq(bits, 1, 53)
        rest == SubSeq(bits, 54, Len(bits))
        up == /\ Head(rest) = 1
              /\ (StripBits(Tail(rest)) # <<>> \/ kept[53] = 1)
        rounded == IF up THEN MagAdd(BitsMag(kept), <<1>>) ELSE BitsMag(kept)
    IN  IF Len(bits) <= 53 THEN n
        ELSE Big(n.neg, BitsMag(MagBits(rounded) \o Zeros(Len(rest))))

\* struct.Struct('!d').unpack_from(data, offset)[0]
d_unpack(data, offset) == float_unpack("d", 8, data, offset)

(***************************************************************************)
(* Timestamps as doubles: seconds since 2000-01-01.                        *)
(***************************************************************************)
\* datetime.datetime.utcfromtimestamp(t) for t sixty-fourths of a second
utcfromtimestamp(t) ==
    LET a == BigDivMod(t, 64)
        b == BigDivMod(a.q, SECONDS_PER_DAY)
        day == BigAdd(b.q, BigFromInt(UNIX_EPOCH_ORDINAL))
    IN  IF ~day.neg /\ day.mag # <<>> /\ MagCmp(day.mag, MagFromNat(MAXORDINAL)) <= 0
        THEN Ok([ordinal |-> BigToInt(day), second |-> b.r, microsecond |-> a.r * 15625])
        ELSE Raise("ValueError")

\* PostgresTranslate.timestamp_recv_float
timestamp_recv_float(data, offset, length) ==
    LET u == d_unpack(data, offset)
    IN  IF u.status # "ok" THEN u
        ELSE IF isnan(u.val.bits) THEN Raise("ValueError")
        ELSE IF isinf(u.val.bits) THEN Raise("OverflowError")
        ELSE utcfromtimestamp(BigAdd(BigMulSmall(BigFromInt(epoch_seconds), 64),
                                     float_sixtyfourths(u.val.bits)))

\* PostgresTranslate.timestamp_send_float for a microsecond that is a multiple
\* of 15625: microsecond / 1e6 is then a whole number of sixty-fourths and the
\* sum and the difference are exact
timestamp_send_float(timestamp) ==
    Ok(float_from_sixtyfourths(
          BigAdd(BigMulSmall(BigAdd(timegm(timestamp), BigFromInt(0 - epoch_seconds)), 64),
                 BigFromInt(timestamp.microsecond \div 15625))))

\* PostgresTranslate.timestamptz_recv_float: the name utc is bound nowhere in
\* the module, so the replace(tzinfo=utc) that follows the decoding raises
timestamptz_recv_float(data, offset, length) ==
    LET r == timestamp_recv_float(data, offset, length)
    IN  IF r.status # "ok" THEN r ELSE Raise("NameError")

(***************************************************************************)
(* Intervals.  A datetime.timedelta is [t |-> "timedelta", td |-> its      *)
(* normalised [days, seconds, microseconds]]; an interval.Interval is      *)
(* [t |-> "Interval", iv |-> [microseconds, days, months]], its fields as  *)
(* the integers read from or written to the wire.                          *)
(***************************************************************************)
PyTimedelta(td) == [t |-> "timedelta", td |-> td]
PyInterval(microseconds, days, months) ==
    [t |-> "Interval", iv |-> [microseconds |-> microseconds, days |-> days, months |-> months]]

\* struct '!h' / '!i' / '!q' pack for width 2, 4, 8: struct.error out of range
int_pack(width, x) ==
    LET m == IF x.neg THEN MagSub(x.mag, <<1>>) ELSE x.mag
        padded == Zeros(width - Len(m)) \o m
    IN  IF Len(m) > width \/ (Len(m) = width /\ m[1] >= 128) THEN Raise("struct.error")
        ELSE IF x.neg THEN Ok(Invert(padded)) ELSE Ok(padded)

\* struct.Struct('!qii').pack and struct.Struct('!dii').pack, the double given
\* as its bytes
qii_pack(microseconds, days, months) ==
    LET q == int_pack(8, microseconds)
        d == int_pack(4, days)
        m == int_pack(4, months)
    IN  IF q.status # "ok" THEN q
        ELSE IF d.status # "ok" THEN d
        ELSE IF m.status # "ok" THEN m
        ELSE Ok(q.val \o d.val \o m.val)

dii_pack(seconds, days, months) ==
    LET d == int_pack(4, days)
        m == int_pack(4, months)
    IN  IF d.status # "ok" THEN d
        ELSE IF m.status # "ok" THEN m
        ELSE Ok(seconds \o d.val \o m.val)

\* struct.Struct('!qii').unpack_from and struct.Struct('!dii').unpack_from
qii_unpack(data, offset) ==
    IF Len(data) - offset < 16 THEN Raise("struct.error")
    ELSE Ok(<<q_unpack(data, offset).val, i_unpack(data, offset + 8).val,
              i_unpack(data, offset + 12).val>>)

dii_unpack(data, offset) ==
    IF Len(data) - offset < 16 THEN Raise("struct.error")
    ELSE Ok(<<d_unpack(data, offset).val.bits, i_unpack(data, offset + 8).val,
              i_unpack(data, offset + 12).val>>)

\* datetime.timedelta(days, seconds, microseconds) for integers (or floats of
\* integral value) days, seconds and 0 <= microseconds <= 10^6: OverflowError
\* beyond 999999999 days
timedelta(days, seconds, microseconds) ==
    LET s == BigAdd(seconds, BigFromInt(microseconds \div MICROS_PER_SECOND))
        b == BigDivMod(s, SECONDS_PER_DAY)
        d == BigAdd(days, b.q)
    IN  IF MagCmp(d.mag, MagFromNat(999999999)) > 0 THEN Raise("OverflowError")
        ELSE Ok(PyTimedelta([days |-> BigToInt(d), seconds |-> b.r,
                             microseconds |-> microseconds % MICROS_PER_SECOND]))

\* PostgresTranslate.interval_recv_integer: divmod(microseconds, 1e6) converts
\* the integer to a double first
interval_recv_integer(data, offset, length) ==
    LET u == qii_unpack(data, offset)
    IN  IF u.status # "ok" THEN u
        ELSE LET microseconds == u.val[1]
                 days == u.val[2]
                 months == u.val[3]
                 sm == BigDivMod(float_of_int(microseconds), MICROS_PER_SECOND)
             IN  IF months.mag = <<>> THEN timedelta(days, sm.q, sm.r)
                 ELSE Ok(PyInterval(microseconds, days, months))

\* round(x) of a non-negative double given as whole and sixty-fourths: ties to even
round_half_even(whole, sixtyfourths) ==
    IF sixtyfourths > 32 \/ (sixtyfourths = 32 /\ whole % 2 = 1) THEN whole + 1 ELSE whole

\* PostgresTranslate.interval_recv_float: divmod(seconds, 1e6) of the wire
\* seconds, the quotient passed as seconds and the remainder as microseconds
interval_recv_float(data, offset, length) ==
    LET u == dii_unpack(data, offset)
    IN  IF u.status # "ok" THEN u
        ELSE LET seconds == u.val[1]
                 days == u.val[2]
                 months == u.val[3]
                 whole == BigDivMod(float_sixtyfourths(seconds), 64)
                 sm == BigDivMod(whole.q, MICROS_PER_SECOND)
             IN  IF months.mag = <<>>
                 THEN IF isnan(seconds) \/ isinf(seconds) THEN Raise("ValueError")
                      ELSE timedelta(days, sm.q, round_half_even(sm.r, whole.r))
                 ELSE IF isnan(seconds) THEN Raise("ValueError")
                 ELSE IF isinf(seconds) THEN Raise("OverflowError")
                 ELSE Ok(PyInterval(BigMulSmall(float_sixtyfourths(seconds), 15625),
                                    days, months))

\* an object of another class, by the attributes it has: each of microseconds,
\* days, seconds, months is None (no such attribute) or Some(integer)
PyObject(attrs) == [t |-> "object", attrs |-> attrs]

\* the attributes the encoders read off a value: a timedelta has days, seconds
\* and microseconds, an Interval microseconds, days and months
attributes(value) ==
    IF value.t = "timedelta"
    THEN [microseconds |-> Some(BigFromInt(value.td.microseconds)),
          days |-> Some(BigFromInt(value.td.days)),
          seconds |-> Some(BigFromInt(value.td.seconds)), months |-> None]
    ELSE IF value.t = "Interval"
    THEN [microseconds |-> Some(value.iv.microseconds), days |-> Some(value.iv.days),
          seconds |-> None, months |-> Some(value.iv.months)]
    ELSE IF value.t = "object" THEN value.attrs
    ELSE [microseconds |-> None, days |-> None, seconds |-> None, months |-> None]

\* PostgresTranslate.interval_send_integer: intrvl.microseconds, plus
\* int(intrvl.seconds * 1e6) unless that raises AttributeError; months
\* intrvl.months, or 0 when that raises AttributeError; intrvl.days read last
interval_send_integer(intrvl) ==
    LET a == attributes(intrvl)
    IN  IF a.microseconds = None THEN Raise("AttributeError")
        ELSE LET microseconds == IF a.seconds = None THEN a.microseconds[1]
                                 ELSE BigAdd(a.microseconds[1], int_times_1e6(a.seconds[1]))
                 months == IF a.months = None THEN BigFromInt(0) ELSE a.months[1]
             IN  IF a.days = None THEN Raise("AttributeError")
                 ELSE qii_pack(microseconds, a.days[1], months)

\* PostgresTranslate.interval_send_float: intrvl.microseconds / 1000.0 / 1000.0,
\* plus intrvl.seconds unless that raises AttributeError; exact for microseconds
\* a multiple of 15625
interval_send_float(intrvl) ==
    LET a == attributes(intrvl)
    IN  IF a.microseconds = None THEN Raise("AttributeError")
        ELSE LET sixtyfourths == BigDivMod(a.microseconds[1], 15625).q
                 seconds == IF a.seconds = None THEN sixtyfourths
                            ELSE BigAdd(sixtyfourths, BigMulSmall(a.seconds[1], 64))
                 months == IF a.months = None THEN BigFromInt(0) ELSE a.months[1]
             IN  IF a.days = None THEN Raise("AttributeError")
                 ELSE dii_pack(float_from_sixtyfourths(seconds), a.days[1], months)

(***************************************************************************)
(* Inputs of the timestamptz and interval codecs.                          *)
(***************************************************************************)
\* the decoder or encoder a registry entry for OID 1114, 1184 or 1186 names
registry_recv(recv, data, offset, length) ==
    CASE recv = "timestamp_recv_integer" -> timestamp_recv_integer(data, offset, length)
      [] recv = "timestamp_recv_float" -> timestamp_recv_float(data, offset, length)
      [] recv = "timestamptz_recv_integer" -> timestamptz_recv_integer(data, offset, length)
      [] recv = "timestamptz_recv_float" -> timestamptz_recv_float(data, offset, length)
      [] recv = "interval_recv_integer" -> interval_recv_integer(data, offset, length)
      [] recv = "interval_recv_float" -> interval_recv_float(data, offset, length)

registry_send(send, value) ==
    CASE send = "timestamp_send_integer" -> timestamp_send_integer(value)
      [] send = "timestamp_send_float" -> timestamp_send_float(value)
      [] send = "interval_send_integer" -> interval_send_integer(value)
      [] send = "interval_send_float" -> interval_send_float(value)

\* doubles as seconds since 2000-01-01: in range, at both ends of the datetime
\* range and one second beyond them, NaN and the infinities
FloatSeconds ==
    {<<0, 0, 0, 0, 0, 0, 0, 0>>,
     <<63, 240, 0, 0, 0, 0, 0, 0>>,
     <<63, 224, 0, 0, 0, 0, 0, 0>>,
     <<191, 240, 0, 0, 0, 0, 0, 0>>,
     <<64, 245, 24, 0, 0, 0, 0, 0>>,
     <<66, 77, 99, 195, 126, 255, 128, 0>>,
     <<66, 77, 99, 195, 127, 0, 0, 0>>,
     <<194, 45, 95, 254, 117, 0, 0, 0>>,
     <<194, 45, 95, 254, 117, 2, 0, 0>>,
     <<127, 248, 0, 0, 0, 0, 0, 0>>, <<127, 240, 0, 0, 0, 0, 0, 0>>, <<255, 240, 0, 0, 0, 0, 0, 0>>}

\* 64-bit integers as microseconds since 2000-01-01: the same instants, and the
\* ends of the 64-bit range
IntegerMicroseconds ==
    {<<0, 0, 0, 0, 0, 0, 0, 1>>,
     <<255, 255, 255, 255, 255, 255, 255, 255>>,
     <<0, 0, 0, 20, 29, 215, 96, 0>>,
     <<3, 128, 231, 11, 145, 59, 127, 255>>,
     <<3, 128, 231, 11, 145, 59, 128, 0>>,
     <<255, 31, 226, 255, 197, 156, 96, 0>>,
     <<255, 31, 226, 255, 197, 156, 95, 255>>,
     <<127, 255, 255, 255, 255, 255, 255, 255>>,
     <<128, 0, 0, 0, 0, 0, 0, 0>>}

\* eight wire bytes at offset 0, at offset 2, and seven bytes
TimestamptzWire ==
    {[kind |-> "timestamptz", data |-> b, offset |-> 0, length |-> 8] :
        b \in FloatSeconds \cup IntegerMicroseconds}
    \cup {[kind |-> "timestamptz", data |-> <<9, 9>> \o b, offset |-> 2, length |-> 8] :
        b \in {<<63, 240, 0, 0, 0, 0, 0, 0>>, <<0, 0, 0, 0, 0, 0, 0, 1>>}}
    \cup {[kind |-> "timestamptz", data |-> SubSeq(b, 1, 7), offset |-> 0, length |-> 7] :
        b \in {<<63, 240, 0, 0, 0, 0, 0, 0>>}}

\* the time field of an interval: doubles 5.0, 1.5, 0.5, -5.0, 1e6, 86400.0, NaN,
\* infinity; integers 0, 5000000, -1, 2 ** 53 + 1, three days and 7 microseconds
IntervalTimeFields ==
    {<<64, 20, 0, 0, 0, 0, 0, 0>>,
     <<63, 248, 0, 0, 0, 0, 0, 0>>,
     <<63, 224, 0, 0, 0, 0, 0, 0>>,
     <<192, 20, 0, 0, 0, 0, 0, 0>>,
     <<65, 46, 132, 128, 0, 0, 0, 0>>,
     <<64, 245, 24, 0, 0, 0, 0, 0>>,
     <<127, 248, 0, 0, 0, 0, 0, 0>>, <<127, 240, 0, 0, 0, 0, 0, 0>>,
     <<0, 0, 0, 0, 0, 0, 0, 0>>,
     <<0, 0, 0, 0, 0, 76, 75, 64>>,
     <<255, 255, 255, 255, 255, 255, 255, 255>>,
     <<0, 32, 0, 0, 0, 0, 0, 1>>,
     <<0, 0, 0, 60, 89, 134, 32, 7>>}

\* days 0, 1, -1, 999999999, 2 ** 31 - 1 and months 0, 2, -1
IntervalDays == {<<0, 0, 0, 0>>, <<0, 0, 0, 1>>, <<255, 255, 255, 255>>, <<59, 154, 201, 255>>, <<127, 255, 255, 255>>}
IntervalMonths == {<<0, 0, 0, 0>>, <<0, 0, 0, 2>>, <<255, 255, 255, 255>>}

IntervalWire ==
    {[kind |-> "interval", data |-> t \o d \o m, offset |-> 0, length |-> 16] :
        t \in IntervalTimeFields, d \in IntervalDays, m \in IntervalMonths}
    \cup {[kind |-> "interval", data |-> SubSeq(t, 1, 8) \o <<0, 0, 0, 0, 0, 0, 0>>,
           offset |-> 0, length |-> 15] : t \in {<<64, 20, 0, 0, 0, 0, 0, 0>>}}

\* durations of whole seconds, durations with sixty-fourths of a second and
\* calendar intervals
Timedeltas ==
    {PyTimedelta([days |-> d, seconds |-> s, microseconds |-> us]) :
        d \in {0 - 999999999, 0 - 1, 0, 1, 999999999}, s \in {0, 5, 86399},
        us \in {0, 15625, 500000}}

Intervals ==
    {PyInterval(BigFromInt(us), BigFromInt(d), BigFromInt(m)) :
        us \in {0, 15625, 5000000}, d \in {0, 1}, m \in {0, 1, 2}}

\* objects that have some of the four attributes: microseconds 15625, days 1,
\* seconds 5, months 2
Objects ==
    {PyObject([microseconds |-> us, days |-> d, seconds |-> sec, months |-> m]) :
        us \in {None, Some(BigFromInt(15625))}, d \in {None, Some(BigFromInt(1))},
        sec \in {None, Some(BigFromInt(5))}, m \in {None, Some(BigFromInt(2))}}

IntervalValues == Timedeltas \cup Intervals \cup Objects \cup {PyStr(<<97>>)}
\* naive datetimes a day before the epoch, at it and twenty years after it,
\* with and without a fraction of a second, and the two ends of the range
NaiveTimestamps ==
    [ordinal : {EPOCH_ORDINAL - 1, EPOCH_ORDINAL, EPOCH_ORDINAL + 7305},
     second : {0, 1, SECONDS_PER_DAY - 1},
     microsecond : {0, 15625, 500000}]
    \cup {datetime_min, datetime_max}

TemporalArgs ==
    {Some([kind |-> "value", value |-> v]) : v \in IntervalValues}
    \cup {Some(w) : w \in TimestamptzWire \cup IntervalWire}
    \cup {Some([kind |-> "timestamp", timestamp |-> ts]) : ts \in NaiveTimestamps}

\* eight bytes read as a double whose sum with epoch_seconds is modelled: a
\* modelled double, or one below 2^-24, which the sum absorbs
SentFloatModelled(bits) == float_modelled(bits) \/ float_exponent(bits) < 999

\* the eight bytes at the offset are a double whose arithmetic is modelled
WireFloatModelled(w) ==
    IF Len(w.data) - w.offset < 8 THEN TRUE
    ELSE float_modelled(SubSeq(w.data, w.offset + 1, w.offset + 8))

(***************************************************************************)
(* The translator decoding and encoding OID 1184 and OID 1186 with the     *)
(* codecs its registries hold, under either representation.                *)
(***************************************************************************)
InitTemporal ==
    /\ TranslatorInit
    /\ cls = None
    /\ args \in TemporalArgs
    /\ last = Called("__init__", None, Ok(None))

UnchangedByTemporal == UNCHANGED <<pg_types, py_types, client_encoding, lastToggle, lastUpdate, cls, args>>

\* pg_types[1184][1](data, offset, length)
recv_timestamptz ==
    /\ args[1].kind = "timestamptz"
    /\ pg_types[1184].recv = "timestamptz_recv_float" => WireFloatModelled(args[1])
    /\ last' = Called(pg_types[1184].recv, args[1],
                      registry_recv(pg_types[1184].recv, args[1].data, args[1].offset,
                                    args[1].length))
    /\ UnchangedByTemporal

\* pg_types[1186][1](data, offset, length)
recv_interval ==
    /\ args[1].kind = "interval"
    /\ pg_types[1186].recv = "interval_recv_float" => WireFloatModelled(args[1])
    /\ last' = Called(pg_types[1186].recv, args[1],
                      registry_recv(pg_types[1186].recv, args[1].data, args[1].offset,
                                    args[1].length))
    /\ UnchangedByTemporal

\* py_types[type(value)][2](value) for a timedelta or an Interval
send_interval ==
    /\ args[1].kind = "value"
    /\ args[1].value.t \in {"timedelta", "Interval"}
    /\ last' = Called(py_types[args[1].value.t].send, args[1],
                      registry_send(py_types[args[1].value.t].send, args[1].value))
    /\ UnchangedByTemporal

\* interval_send_integer / interval_send_float called on a value of another type
send_interval_other ==
    /\ args[1].kind = "value"
    /\ args[1].value.t \notin {"timedelta", "Interval"}
    /\ \E send \in {"interval_send_integer", "interval_send_float"} :
          last' = Called(send, args[1], registry_send(send, args[1].value))
    /\ UnchangedByTemporal

\* the bytes just sent, decoded with the registry's decoder for OID 1186
recv_sent_interval ==
    /\ last.op \in {"interval_send_integer", "interval_send_float"}
    /\ last.ret.status = "ok"
    /\ last' = Called(pg_types[1186].recv,
                      [kind |-> "sent", data |-> last.ret.val, offset |-> 0,
                       length |-> Len(last.ret.val), value |-> last.arg.value,
                       send |-> last.op],
                      registry_recv(pg_types[1186].recv, last.ret.val, 0, Len(last.ret.val)))
    /\ UnchangedByTemporal

\* py_types[1114][2](value) for a naive datetime
send_timestamp ==
    /\ args[1].kind = "timestamp"
    /\ py_types["1114"].send = "timestamp_send_float" => args[1].timestamp.microsecond % 15625 = 0
    /\ last' = Called(py_types["1114"].send, args[1],
                      registry_send(py_types["1114"].send, args[1].timestamp))
    /\ UnchangedByTemporal

\* the bytes just sent, decoded with the registry's decoder for OID 1114
recv_timestamp_sent ==
    /\ last.op \in {"timestamp_send_integer", "timestamp_send_float"}
    /\ last.ret.status = "ok"
    /\ pg_types[1114].recv = "timestamp_recv_float" => SentFloatModelled(last.ret.val)
    /\ last' = Called(pg_types[1114].recv,
                      [kind |-> "sent_timestamp", data |-> last.ret.val, offset |-> 0,
                       length |-> Len(last.ret.val), timestamp |-> last.arg.timestamp,
                       send |-> last.op],
                      registry_recv(pg_types[1114].recv, last.ret.val, 0, Len(last.ret.val)))
    /\ UnchangedByTemporal

NextTemporal ==
    \/ timestamps_are_integers
    \/ timestamps_are_floats
    \/ recv_timestamptz
    \/ recv_interval
    \/ send_interval
    \/ send_interval_other
    \/ recv_sent_interval
    \/ send_timestamp
    \/ recv_timestamp_sent

SpecTemporal == InitTemporal /\ [][NextTemporal]_vars

(***************************************************************************)
(* array_recv step by step: the header and the dimensions are read on      *)
(* entry, then each iteration of `while offset < final_idx` is one step,   *)
(* and the fix-up of the dimensions is the return.  While the call runs,   *)
(* last.ret is [status |-> "running", val |-> the local variables].        *)
(***************************************************************************)
\* the most iterations of one call that are followed
MaxValues == 9

Running(locals) == [status |-> "running", val |-> locals]

\* lines 745-756: the state of the call when the element loop is reached
array_recv_entered(d, data, offset, length) ==
    LET hdr == iii_unpack(data, offset)
    IN  IF hdr.status # "ok" THEN hdr
        ELSE LET dl == read_dim_lengths(data, offset + 12, hdr.val[1], <<>>)
             IN  IF dl.status # "ok" THEN Raise(dl.status)
                 ELSE Running([offset |-> dl.offset, final_idx |-> offset + length,
                               recv |-> defaultdict_getitem(d, hdr.val[3]).recv,
                               dim_lengths |-> dl.val, values |-> <<>>])

\* lines 760-768: one iteration of the element loop
array_recv_iteration(encoding, data, locals) ==
    LET u == i_unpack(data, locals.offset)
    IN  IF u.status # "ok" THEN u
        ELSE LET element_len == BigToInt(u.val)
                 c == conversion(locals.recv, encoding, data, locals.offset + 4, element_len)
             IN  IF element_len = 0 - 1
                 THEN Running([locals EXCEPT !.offset = @ + 4, !.values = Append(@, PyNone)])
                 ELSE IF c.status # "ok" THEN c
                 ELSE Running([locals EXCEPT !.offset = @ + 4 + element_len,
                                            !.values = Append(@, c.val)])

\* lines 770-775: the fix-up and the return
array_recv_returned(locals) == Ok(PyList(fix_up(locals.values, locals.dim_lengths)))

(***************************************************************************)
(* Inputs of the stepwise array decoder.  An input carries, next to the    *)
(* wire bytes, what they were built from: the dimension lengths and the    *)
(* elements, each element the value a leaf decodes to.                     *)
(***************************************************************************)
\* the wire bytes of an element that decodes to the leaf: a null, an int4, a text
LeafBytes(leaf) ==
    IF leaf = PyNone THEN WireNull
    ELSE IF leaf.t = "int" THEN WireElement(i_pack(BigToInt(leaf.big)))
    ELSE WireElement(leaf.v)

ArrayBody(leaves) == Flatten([k \in 1..Len(leaves) |-> LeafBytes(leaves[k])])

\* the k-th element of an int4 array and of a text array (texts of 0, 1, 2 bytes)
TextLeaf(k) == PyStr([i \in 1..(k % 3) |-> 96 + k])

\* n elements of the element type, those at the positions in nulls being null
Leaves(oid, n, nulls) ==
    [k \in 1..n |-> IF k \in nulls THEN PyNone
                    ELSE IF oid = 23 THEN IntLeaf(k) ELSE TextLeaf(k)]

RECURSIVE Product(_)
Product(dims) == IF dims = <<>> THEN 1 ELSE Head(dims) * Product(Tail(dims))

\* the element count of an array of the given dimensions: none without dimensions
ElementCount(dims) == IF dims = <<>> THEN 0 ELSE Product(dims)

DimLengths ==
    {<<>>, <<0>>, <<1>>, <<3>>, <<2, 3>>, <<3, 2>>, <<2, 1>>, <<1, 2, 3>>, <<2, 2, 2>>,
     <<2, 0>>, <<0, 2>>, <<2, 0, 2>>}

NullPositions == {{}, {1}, {2, 3}, 1..8}

ArrayInput(dims, oid, leaves, kind) ==
    [kind |-> kind, dims |-> dims, leaves |-> leaves,
     data |-> WireHeader(dims, 0, oid) \o ArrayBody(leaves), offset |-> 0,
     length |-> Len(WireHeader(dims, 0, oid) \o ArrayBody(leaves))]

\* well-formed arrays: exactly as many elements as the dimensions declare
WellFormedArrays ==
    {ArrayInput(dims, oid, Leaves(oid, ElementCount(dims), nulls), "wellformed") :
        dims \in DimLengths, oid \in {23, 25}, nulls \in NullPositions}

\* arrays with one element fewer or one more than the dimensions declare
Miscounts(dims) ==
    {ElementCount(dims) + 1}
    \cup (IF ElementCount(dims) > 0 THEN {ElementCount(dims) - 1} ELSE {})
MiscountedArrays ==
    UNION {{ArrayInput(dims, 23, Leaves(23, n, {}), "miscounted") : n \in Miscounts(dims)} :
              dims \in DimLengths \ {<<>>, <<0>>}}
    \cup {ArrayInput(<<>>, 23, Leaves(23, 2, {}), "miscounted")}

\* arrays of two int4 elements whose first element-length field is -4 or -2
NegativeLengthArrays ==
    {[kind |-> "negative", dims |-> <<2>>, leaves |-> Leaves(23, 2, {}),
      data |-> WireHeader(<<2>>, 0, 23) \o i_pack(n) \o <<0, 0, 0, 1>>
               \o WireElement(<<0, 0, 0, 2>>),
      offset |-> 0, length |-> 36] : n \in {0 - 4, 0 - 2}}

\* a well-formed array cut short, and declared shorter than it is
CutArrays ==
    {[a EXCEPT !.kind = "cut", !.data = SubSeq(a.data, 1, Len(a.data) - n)] :
        a \in {ArrayInput(<<2, 3>>, 23, Leaves(23, 6, {}), "wellformed")}, n \in 1..30}
    \cup {[a EXCEPT !.kind = "cut", !.length = a.length - n] :
        a \in {ArrayInput(<<2, 3>>, 23, Leaves(23, 6, {}), "wellformed")}, n \in 1..9}

ArrayInputs == WellFormedArrays \cup MiscountedArrays \cup NegativeLengthArrays \cup CutArrays

(***************************************************************************)
(* The translator decoding one array, step by step.                        *)
(***************************************************************************)
InitArray ==
    /\ TranslatorInit
    /\ cls = None
    /\ args \in {Some(a) : a \in ArrayInputs}
    /\ last = Called("idle", None, Ok(None))

\* array_recv is called: lines 745-756
array_recv_enter ==
    /\ last.ret.status # "running"
    /\ LET a == args[1]
           hdr == iii_unpack(a.data, a.offset)
       IN  /\ last' = Called("array_recv", a,
                             array_recv_entered(pg_types, a.data, a.offset, a.length))
           /\ pg_types' = IF hdr.status = "ok" THEN defaultdict_missing(pg_types, hdr.val[3])
                          ELSE pg_types
    /\ UNCHANGED <<py_types, client_encoding, lastToggle, lastUpdate, cls, args>>

\* the loop condition holds: lines 760-768
array_recv_element ==
    /\ last.ret.status = "running"
    /\ last.ret.val.offset < last.ret.val.final_idx
    /\ Len(last.ret.val.values) < MaxValues
    /\ last' = [last EXCEPT !.ret = array_recv_iteration(client_encoding, last.arg.data,
                                                         last.ret.val)]
    /\ UnchangedByCodec

\* the loop condition fails: lines 770-775
array_recv_return ==
    /\ last.ret.status = "running"
    /\ ~(last.ret.val.offset < last.ret.val.final_idx)
    /\ last' = [last EXCEPT !.ret = array_recv_returned(last.ret.val)]
    /\ UnchangedByCodec

NextArray ==
    \/ array_recv_enter
    \/ array_recv_element
    \/ array_recv_return

SpecArray == InitArray /\ [][NextArray]_vars

(***************************************************************************)
(* Two StartupMessage.construct calls on two threads.  The fields of the   *)
(* class are shared, and a thread switch can fall between any two          *)
(* statements of _construct, so each statement that writes or reads a      *)
(* class field is one step.  args[c] holds the arguments of call c and     *)
(* last[c] its progress: not yet called, running (the line it stands       *)
(* before and its locals) or returned.                                     *)
(***************************************************************************)
Calls == {1, 2}
NotCalled == [status |-> "notcalled", val |-> None]

\* "w"
S_w == <<119>>

InterleavedArgs ==
    [database : {PyNone, PyStr(S_db)}, user : {PyStr(S_u), PyStr(S_w), PyNone},
     protocol_version : {PyNone, PyInt(131072)}, client_encoding : {Some("utf-8")},
     application_name : {PyNone}, kwargs : {<<>>}]

\* the attributes of the class StartupMessage: none before the first call
class_fields ==
    IF cls = None
    THEN [database |-> None, user |-> None, protocol_version |-> None, translator |-> None]
    ELSE cls[1]

At(c, line) == last[c].ret.status = "running" /\ last[c].ret.val.line = line
Goto(c, line) == last' = [last EXCEPT ![c].ret.val.line = line]

InitInterleaved ==
    /\ TranslatorInit
    /\ cls = None
    /\ args \in [Calls -> InterleavedArgs]
    /\ last = [c \in Calls |-> Called("construct", args[c], NotCalled)]

\* StartupMessage.construct up to the first statement of _construct
construct_called ==
    \E c \in Calls :
        LET a == args[c]
            application_name == IF a.application_name = PyNone
                                THEN PyStr(APPLICATION_NAME) ELSE a.application_name
        IN  /\ last[c].ret = NotCalled
            /\ IF \E i \in 1..Len(a.kwargs) : a.kwargs[i][1].t # "str"
               THEN last' = [last EXCEPT ![c].ret = Raise("TypeError")]
               ELSE last' = [last EXCEPT ![c].ret =
                                Running([line |-> 64, application_name |-> application_name,
                                         message |-> <<>>])]
            /\ UNCHANGED <<pg_types, py_types, client_encoding, lastToggle, lastUpdate, cls, args>>

\* line 64: cls.database = database
write_database ==
    \E c \in Calls :
        /\ At(c, 64)
        /\ cls' = Some([class_fields EXCEPT !.database = args[c].database])
        /\ Goto(c, 65)
        /\ UNCHANGED <<pg_types, py_types, client_encoding, lastToggle, lastUpdate, args>>

\* line 65: cls.user = user
write_user ==
    \E c \in Calls :
        /\ At(c, 65)
        /\ cls' = Some([class_fields EXCEPT !.user = args[c].user])
        /\ Goto(c, 66)
        /\ UNCHANGED <<pg_types, py_types, client_encoding, lastToggle, lastUpdate, args>>

\* lines 66-67: cls.protocol_version = protocol_version or DEFAULT_PROTOCOL_VERSION
write_protocol_version ==
    \E c \in Calls :
        /\ At(c, 66)
        /\ cls' = Some([class_fields EXCEPT
                           !.protocol_version =
                               protocol_version_or_default(args[c].protocol_version)])
        /\ Goto(c, 69)
        /\ UNCHANGED <<pg_types, py_types, client_encoding, lastToggle, lastUpdate, args>>

\* lines 69-70: translator = PostgresTranslate(...); cls.translator = translator
write_translator ==
    \E c \in Calls :
        /\ At(c, 69)
        /\ cls' = Some([class_fields EXCEPT
                           !.translator = [client_encoding |-> args[c].client_encoding]])
        /\ Goto(c, 77)
        /\ UNCHANGED <<pg_types, py_types, client_encoding, lastToggle, lastUpdate, args>>

\* line 77: message = translator.i_pack(cls.protocol_version)
read_protocol_version ==
    \E c \in Calls :
        /\ At(c, 77)
        /\ last' = [last EXCEPT ![c].ret.val.message = i_pack(class_fields.protocol_version),
                                ![c].ret.val.line = 78]
        /\ UNCHANGED <<pg_types, py_types, client_encoding, lastToggle, lastUpdate, cls, args>>

\* line 78: message += cls.make_argument("user", cls.user)
read_user ==
    \E c \in Calls :
        LET a == make_argument(PyStr(K_user), class_fields.user)
        IN  /\ At(c, 78)
            /\ IF a.status # "ok" THEN last' = [last EXCEPT ![c].ret = a]
               ELSE last' = [last EXCEPT
                                ![c].ret.val.message = last[c].ret.val.message \o a.val,
                                ![c].ret.val.line = 80]
            /\ UNCHANGED <<pg_types, py_types, client_encoding, lastToggle, lastUpdate, cls, args>>

\* lines 80-98: the remaining arguments, the terminator and the length
construct_returned ==
    \E c \in Calls :
        LET a == args[c]
            r == append_arguments(last[c].ret.val.message,
                                  Tail(startup_pairs(a.database, a.user,
                                                     last[c].ret.val.application_name,
                                                     a.kwargs)))
        IN  /\ At(c, 80)
            /\ last' = [last EXCEPT ![c].ret = IF r.status # "ok" THEN r
                                               ELSE Ok(frame(r.val \o null_byte))]
            /\ UNCHANGED <<pg_types, py_types, client_encoding, lastToggle, lastUpdate, cls, args>>

NextInterleaved ==
    \/ construct_called
    \/ write_database
    \/ write_user
    \/ write_protocol_version
    \/ write_translator
    \/ read_protocol_version
    \/ read_user
    \/ construct_returned

SpecInterleaved == InitInterleaved /\ [][NextInterleaved]_vars



(***************************************************************************)
(* Claims about the translator's registries and active encoding (Spec).    *)
(***************************************************************************)
AllOids == PgTableOids \cup UnknownOids
Decoders == {t[3] : t \in PgTable} \cup
            {"timestamp_recv_integer", "timestamptz_recv_integer", "interval_recv_float"}
TextDefault == [fc |-> 0, recv |-> "text_recv"]
ToggledOids == {1114, 1184, 1186}
ToggledKeys == {"1114", "1184", "timedelta", "Interval"}
ToggleOps == {"timestamps_are_integers", "timestamps_are_floats"}

\* C1: in every reachable state a lookup of any OID in pg_types yields one
\* (format, decoder) descriptor, and for every OID outside the construction-time
\* table that descriptor is (TEXT, text_recv); a lookup performed returns it.
C1_EveryOidResolves ==
    /\ \A oid \in AllOids :
          LET d == defaultdict_getitem(pg_types, oid)
          IN  /\ d.fc \in {0, 1}
              /\ d.recv \in Decoders
              /\ oid \notin PgTableOids => d = TextDefault
    /\ last.op = "pg_types_lookup" =>
          /\ last.ret.status = "ok"
          /\ last.arg \in DOMAIN pg_types /\ pg_types[last.arg] = last.ret.val
          /\ last.arg \notin PgTableOids => last.ret.val = TextDefault

\* C1 witness: an unknown OID was looked up after a toggle and an encoding update
C1_Witness ==
    /\ last.op = "pg_types_lookup" /\ last.arg = 600
    /\ lastToggle = "floats" /\ lastUpdate # None

\* C2: when the most recent toggle is timestamps_are_floats the decode entries
\* 1114, 1184, 1186 and the encode entries timestamp, timestamptz, timedelta and
\* Interval are all float codecs; when it is timestamps_are_integers they are all
\* integer codecs; never a mixture after a completed toggle.
C2_ToggleIsConsistent ==
    /\ lastToggle = "floats" =>
          /\ pg_types[1114].recv = "timestamp_recv_float"
          /\ pg_types[1184].recv = "timestamptz_recv_float"
          /\ pg_types[1186].recv = "interval_recv_float"
          /\ py_types["1114"].send = "timestamp_send_float"
          /\ py_types["1184"].send = "timestamptz_send_float"
          /\ py_types["timedelta"].send = "interval_send_float"
          /\ py_types["Interval"].send = "interval_send_float"
    /\ lastToggle = "integers" =>
          /\ pg_types[1114].recv = "timestamp_recv_integer"
          /\ pg_types[1184].recv = "timestamptz_recv_integer"
          /\ pg_types[1186].recv = "interval_recv_integer"
          /\ py_types["1114"].send = "timestamp_send_integer"
          /\ py_types["1184"].send = "timestamptz_send_integer"
          /\ py_types["timedelta"].send = "interval_send_integer"
          /\ py_types["Interval"].send = "interval_send_integer"

\* C2 witness: the float toggle has run and another operation ran after it
C2_Witness ==
    /\ lastToggle = "floats" /\ last.op = "update_client_encoding"
    /\ pg_types[1186].recv = "interval_recv_float"

ToggleFrame ==
    /\ DOMAIN pg_types' = DOMAIN pg_types
    /\ \A oid \in DOMAIN pg_types \ ToggledOids : pg_types'[oid] = pg_types[oid]
    /\ DOMAIN py_types' = DOMAIN py_types
    /\ \A k \in DOMAIN py_types \ ToggledKeys : py_types'[k] = py_types[k]
    /\ client_encoding' = client_encoding

UpdateFrame == pg_types' = pg_types /\ py_types' = py_types

\* C3 (as amended): a toggle leaves every decode entry other than 1114, 1184,
\* 1186, every encode entry other than timestamp, timestamptz and interval, and
\* the active encoding unchanged; update_client_encoding leaves both tables
\* unchanged; any other step leaves the encode table unchanged and leaves the
\* descriptor every OID resolves to unchanged, the decode table only gaining the
\* default entry of an OID that was looked up while absent.
C3_Frame ==
    [][ /\ last'.op \in ToggleOps => ToggleFrame
        /\ last'.op = "update_client_encoding" => UpdateFrame
        /\ last'.op \notin ToggleOps =>
              /\ py_types' = py_types
              /\ DOMAIN pg_types \subseteq DOMAIN pg_types'
              /\ \A oid \in AllOids :
                    defaultdict_getitem(pg_types', oid) = defaultdict_getitem(pg_types, oid)
              /\ \A oid \in DOMAIN pg_types' \ DOMAIN pg_types :
                    last'.op = "pg_types_lookup" /\ last'.arg = oid
      ]_vars

\* C3 witness: a toggle ran on a table that had gained a default entry
C3_Witness ==
    /\ last.op = "timestamps_are_integers"
    /\ 600 \in DOMAIN pg_types /\ lastUpdate # None

\* C3 (as claimed): as above, but the two tables are otherwise never modified
\* after construction.
C3_TablesNeverModified ==
    [][ /\ last'.op \in ToggleOps => ToggleFrame
        /\ last'.op = "update_client_encoding" => UpdateFrame
        /\ last'.op \notin ToggleOps => (pg_types' = pg_types /\ py_types' = py_types)
      ]_vars

\* the codec name each server encoding name is expected to select
ExpectedEncoding(name) ==
    CASE name = "latin1"    -> "iso8859-1"
      [] name = "sql_ascii" -> "ascii"
      [] name = "unicode"   -> "utf-8"
      [] name = "win866"    -> "cp886"
      [] OTHER              -> name

\* C4: after update_client_encoding(name) the active encoding is the table's
\* target for a name of the table of differing names and name itself otherwise,
\* whatever updates came before; text_out and text_recv then use that encoding.
C4_ActiveEncoding ==
    /\ (lastUpdate # None /\ lastUpdate[1] \notin {"mule_internal", "euc_tw"}) =>
          client_encoding = Some(ExpectedEncoding(lastUpdate[1]))
    /\ (last.op = "text_out" /\ lastUpdate # None) =>
          /\ last.ret = str_encode(last.arg, dict_get(encodings, lastUpdate[1], lastUpdate))
          /\ (lastUpdate[1] = "latin1" /\ last.arg = <<233>>) => last.ret = Ok(<<233>>)
          /\ (lastUpdate[1] = "unicode" /\ last.arg = <<233>>) => last.ret = Ok(<<195, 169>>)
          /\ (lastUpdate[1] = "sql_ascii" /\ last.arg = <<233>>) =>
                last.ret.status = "UnicodeEncodeError"
    /\ (last.op = "text_recv" /\ lastUpdate # None) =>
          /\ (lastUpdate[1] = "latin1" /\ last.arg = <<(<<195, 169>>), 0, 2>>) =>
                last.ret = Ok(<<195, 169>>)
          /\ (lastUpdate[1] = "utf8" /\ last.arg = <<(<<195, 169>>), 0, 2>>) =>
                last.ret = Ok(<<233>>)

\* C4 witness: text encoded after latin1 was selected
C4_Witness ==
    /\ lastUpdate = Some("latin1") /\ client_encoding = Some("iso8859-1")
    /\ last.op = "text_out" /\ last.arg = <<233>>

TextCodecOps == {"text_out", "text_recv", "numeric_out", "numeric_in"}

RECURSIVE AllAscii(_)
AllAscii(s) == s = <<>> \/ (Head(s) < 128 /\ AllAscii(Tail(s)))

\* C5: after update_client_encoding with an unsupported name (mule_internal,
\* euc_tw) the update itself succeeds and every text codec call ends in an error
\* and returns no value, until an update with a supported name, after which text
\* the codec can represent is encoded again.
C5_UnsupportedEncodingFails ==
    /\ last.op = "update_client_encoding" => last.ret.status = "ok"
    /\ (lastUpdate # None /\ lastUpdate[1] \in {"mule_internal", "euc_tw"}) =>
          /\ client_encoding = None
          /\ last.op \in TextCodecOps =>
                (last.ret.status # "ok" /\ last.ret.val = None)
    /\ (lastUpdate # None /\ lastUpdate[1] \in {"latin1", "unicode", "utf8", "ascii"}
          /\ last.op = "text_out" /\ AllAscii(last.arg)) =>
          last.ret = Ok(last.arg)

\* C5 witness: text_recv was called while the unsupported sentinel was active
C5_Witness ==
    /\ lastUpdate = Some("mule_internal")
    /\ last.op = "text_recv" /\ last.ret.status = "TypeError"

(***************************************************************************)
(* Claims about the startup message (SpecStartup).  The message returned   *)
(* is read back with a parser of the wire layout.                          *)
(***************************************************************************)
\* a big-endian non-negative int32, None when the sign bit is set
ReadInt32(b) ==
    IF b[1] >= 128 THEN None
    ELSE Some(((b[1] * 256 + b[2]) * 256 + b[3]) * 256 + b[4])

\* the NUL-terminated strings of b, None when the last one is not terminated
RECURSIVE SplitNul(_, _)
SplitNul(b, cur) ==
    IF b = <<>> THEN (IF cur = <<>> THEN Some(<<>>) ELSE None)
    ELSE IF Head(b) = 0
         THEN LET r == SplitNul(Tail(b), <<>>)
              IN  IF r = None THEN None ELSE Some(<<cur>> \o r[1])
         ELSE SplitNul(Tail(b), cur \o <<Head(b)>>)

\* int32 length, int32 version, {key NUL value NUL}*, NUL: None when msg does not
\* have this layout
ParseStartup(msg) ==
    IF Len(msg) < 9 \/ msg[Len(msg)] # 0 THEN None
    ELSE LET length == ReadInt32(SubSeq(msg, 1, 4))
             version == ReadInt32(SubSeq(msg, 5, 8))
             strs == SplitNul(SubSeq(msg, 9, Len(msg) - 1), <<>>)
         IN  IF length = None \/ version = None \/ strs = None THEN None
             ELSE IF Len(strs[1]) % 2 # 0 THEN None
             ELSE IF \E i \in 1..Len(strs[1]) : i % 2 = 1 /\ strs[1][i] = <<>> THEN None
             ELSE Some([length |-> length[1], version |-> version[1],
                        pairs |-> [i \in 1..(Len(strs[1]) \div 2) |->
                                     <<strs[1][2 * i - 1], strs[1][2 * i]>>]])

StartupOps == {"construct", "message"}
Returned == last.op \in StartupOps /\ last.ret.status = "ok"

\* the protocol version the caller asked for
RequestedVersion ==
    IF last.op = "message" \/ last.arg.protocol_version \in {PyNone, PyInt(0)}
    THEN 196608 ELSE last.arg.protocol_version.v[1]

\* C6: every message returned has the layout int32(totalLength) ++
\* int32(protocolVersion) ++ zero or more key NUL value NUL pairs ++ NUL, and
\* totalLength is the byte length of the whole message, its own 4 bytes included.
C6_StartupLayout ==
    Returned =>
        LET p == ParseStartup(last.ret.val)
        IN  /\ p # None
            /\ p[1].length = Len(last.ret.val)
            /\ p[1].version = RequestedVersion

\* C6 witness: a message with database, application name and an extra parameter
C6_Witness ==
    /\ Returned /\ last.op = "construct"
    /\ last.arg.database = PyStr(S_db) /\ last.arg.application_name = PyStr(S_app)
    /\ Len(last.arg.kwargs) = 1 /\ last.arg.protocol_version = PyInt(131072)

\* the bytes of a text or bytes value on the wire
WireBytes(x) == IF x.t = "str" THEN encode_utf8(x.v) ELSE x.v

\* the application name of the call: the default one for construct without one
EffectiveApplicationName ==
    IF last.op = "construct" /\ last.arg.application_name = PyNone
    THEN PyStr(<<104, 95, 49, 95, 112, 121>>) ELSE last.arg.application_name

ExpectedKwargs ==
    IF last.op = "message" THEN <<>>
    ELSE [i \in 1..Len(last.arg.kwargs) |->
            <<WireBytes(last.arg.kwargs[i][1]), WireBytes(last.arg.kwargs[i][2])>>]

\* C7: the pairs of a returned message are: user first; then database iff it is
\* not None; then application_name iff the application name is non-empty; then
\* every extra parameter once, in the caller's order; and no other pair.
C7_PairOrder ==
    Returned =>
        LET p == ParseStartup(last.ret.val)
            app == EffectiveApplicationName
        IN  /\ p # None
            /\ p[1].pairs =
                  <<(<<K_user, WireBytes(last.arg.user)>>)>>
                  \o (IF last.arg.database # PyNone
                      THEN <<(<<K_database, WireBytes(last.arg.database)>>)>> ELSE <<>>)
                  \o (IF app.t \in {"str", "bytes"} /\ app.v # <<>>
                      THEN <<(<<K_application_name, WireBytes(app)>>)>> ELSE <<>>)
                  \o ExpectedKwargs

\* C7 witness: two extra parameters were supplied, with database and
\* application name present
C7_Witness ==
    /\ Returned /\ last.op = "construct"
    /\ last.arg.database # PyNone /\ last.arg.application_name = PyStr(S_app)
    /\ Len(last.arg.kwargs) = 2 /\ last.arg.kwargs[1][1] = PyStr(<<111>>)

\* construct(database="db", user="u", client_encoding="utf-8") and nothing else
IsC8Call ==
    /\ last.op = "construct"
    /\ last.arg.database = PyStr(S_db) /\ last.arg.user = PyStr(S_u)
    /\ last.arg.client_encoding = Some("utf-8")
    /\ last.arg.protocol_version = PyNone
    /\ last.arg.kwargs = <<>>

\* user NUL u NUL database NUL db NUL
C8_UserDatabase == <<117, 115, 101, 114, 0, 117, 0, 100, 97, 116, 97, 98, 97, 115, 101, 0, 100, 98, 0>>
\* application_name NUL h_1_py NUL
C8_DefaultApplication ==
    <<97, 112, 112, 108, 105, 99, 97, 116, 105, 111, 110, 95, 110, 97, 109, 101, 0,
      104, 95, 49, 95, 112, 121, 0>>

IsTextOrBytes(x) == x.t \in {"str", "bytes"}

\* some startup key or value of the call is neither text nor bytes (an absent
\* database or application name, None, is not a value)
SomeNonTextArgument ==
    \/ ~IsTextOrBytes(last.arg.user)
    \/ (last.arg.database # PyNone /\ ~IsTextOrBytes(last.arg.database))
    \/ (last.arg.application_name # PyNone /\ ~IsTextOrBytes(last.arg.application_name))
    \/ (last.op = "construct" /\
        \E i \in 1..Len(last.arg.kwargs) :
            ~IsTextOrBytes(last.arg.kwargs[i][1]) \/ ~IsTextOrBytes(last.arg.kwargs[i][2]))

\* C9: if any startup key or value is neither text nor bytes the call ends in an
\* error and returns no message; no message is emitted with that pair skipped.
C9_NonTextIsError ==
    (last.op \in StartupOps /\ SomeNonTextArgument) => last.ret.status # "ok"

(***************************************************************************)
(* Claims about the integer timestamp codec (SpecTimestamp).  Wire values  *)
(* are compared as 8-byte two's complement numbers, independently of the   *)
(* codec's arithmetic.                                                     *)
(***************************************************************************)
\* the 8 bytes the decoder was pointed at
WireValue == SubSeq(last.arg.data, last.arg.offset + 1, last.arg.offset + 8)

RECURSIVE LexLess(_, _)
LexLess(a, b) ==
    IF a = <<>> THEN FALSE
    ELSE Head(a) < Head(b) \/ (Head(a) = Head(b) /\ LexLess(Tail(a), Tail(b)))

\* signed order of two's complement bytes: the sign bit is flipped
Biased(b) == <<(b[1] + 128) % 256>> \o Tail(b)
SignedLess(a, b) == LexLess(Biased(a), Biased(b))

\* 2^63 - 1 and -2^63 on the wire
WireInt64Max == <<127, 255, 255, 255, 255, 255, 255, 255>>
WireInt64Min == <<128, 0, 0, 0, 0, 0, 0, 0>>
\* datetime.max - epoch = 252455615999999999 and datetime.min - epoch =
\* -63082281600000000 microseconds on the wire
WireDatetimeMax == <<3, 128, 231, 11, 145, 59, 127, 255>>
WireDatetimeMin == <<255, 31, 226, 255, 197, 156, 96, 0>>

Decoded == last.op = "timestamp_recv_integer" /\ Len(last.arg.data) - last.arg.offset >= 8
Overflows == SignedLess(WireDatetimeMax, WireValue) \/ SignedLess(WireValue, WireDatetimeMin)

C10_Encode ==
    (last.op = "timestamp_send_integer"
        /\ last.arg.timestamp = [ordinal |-> 3652059, second |-> 86399, microsecond |-> 999999])
    => last.ret = Ok(WireInt64Max)

C10_DecodeMax ==
    (Decoded /\ WireValue = WireInt64Max)
    => last.ret = Ok([ordinal |-> 3652059, second |-> 86399, microsecond |-> 999999])

\* C10 (as amended): under the integer representation encoding the maximum
\* timestamp yields exactly 2^63 - 1; decoding 2^63 - 1 yields the maximum
\* timestamp and decoding -2^63 yields the minimum timestamp; decoding any other
\* offset whose addition to the epoch leaves the timestamp range ends in an error
\* and is not clamped, and an offset inside the range is decoded without error.
C10_Sentinels ==
    /\ C10_Encode
    /\ C10_DecodeMax
    /\ (Decoded /\ WireValue = WireInt64Min)
          => last.ret = Ok([ordinal |-> 1, second |-> 0, microsecond |-> 0])
    /\ (Decoded /\ Overflows /\ WireValue \notin {WireInt64Max, WireInt64Min})
          => (last.ret.status = "OverflowError" /\ last.ret.val = None)
    /\ (Decoded /\ ~Overflows) => last.ret.status = "ok"

\* C10 witness: an overflowing offset other than the two sentinels was decoded
C10_Witness ==
    /\ Decoded /\ WireValue = <<3, 128, 231, 11, 145, 59, 128, 0>>
    /\ last.ret.status = "OverflowError"

\* C10 (as claimed): ... decoding any offset other than 2^63 - 1 whose addition
\* to the epoch overflows the timestamp range ends in an error rather than being
\* clamped to the maximum or minimum timestamp.
C10_OnlyMaxIsSentinel ==
    /\ C10_Encode
    /\ C10_DecodeMax
    /\ (Decoded /\ Overflows /\ WireValue # WireInt64Max)
          => last.ret.status = "OverflowError"

(***************************************************************************)
(* Round trips of the integer timestamp codec (SpecTimestamp).  An instant *)
(* is the UTC day, second of the day and microsecond a value denotes.      *)
(***************************************************************************)
Instant(v) ==
    <<v.ordinal + ((v.second - v.utcoffset) \div 86400),
      (v.second - v.utcoffset) % 86400, v.microsecond>>
Representable(v) == Instant(v)[1] >= 1 /\ Instant(v)[1] <= 3652059

DecodedSent(op) == last.op = op /\ last.arg.kind = "sent"
EncodedAware == last.op = "timestamptz_send_integer"

\* a timestamp without timezone survives encode then decode; the epoch is offset 0
C11_Naive ==
    /\ last.op = "timestamp_send_integer" => last.ret.status = "ok"
    /\ (last.op = "timestamp_send_integer"
            /\ last.arg.timestamp = [ordinal |-> 730120, second |-> 0, microsecond |-> 0])
          => last.ret.val = <<0, 0, 0, 0, 0, 0, 0, 0>>
    /\ DecodedSent("timestamp_recv_integer") => last.ret = Ok(last.arg.timestamp)

\* an aware timestamp that was encoded decodes to the same instant, tagged UTC
C11_AwareDecode ==
    DecodedSent("timestamptz_recv_integer") =>
        /\ last.ret.status = "ok"
        /\ last.ret.val.utcoffset = 0
        /\ Instant(last.ret.val) = Instant(last.arg.timestamp)

\* aware timestamps denoting the same instant encode alike
C11_SameBytes ==
    EncodedAware =>
        \A w \in AwareTimestamps :
            Instant(w) = Instant(last.arg.timestamp) => timestamptz_send_integer(w) = last.ret

\* C11 (as amended): under the integer representation decode(encode(v)) = v for
\* every timestamp v without timezone, the epoch (offset 0) and the minimum and
\* maximum timestamps included; for an aware v whose instant, taken to UTC, lies
\* within the minimum and maximum timestamps, timestamptz decode(encode(v)) is
\* the same instant as v, and aware values of the same instant in different UTC
\* offsets encode to identical bytes; for any other aware v encoding ends in an
\* OverflowError.
C11_RoundTrip ==
    /\ C11_Naive
    /\ C11_AwareDecode
    /\ C11_SameBytes
    /\ EncodedAware =>
          IF Representable(last.arg.timestamp) THEN last.ret.status = "ok"
          ELSE last.ret.status = "OverflowError"

\* C11 witness: an aware timestamp east of UTC came back as the same instant
C11_Witness ==
    /\ DecodedSent("timestamptz_recv_integer")
    /\ last.arg.timestamp.utcoffset = 18000 /\ last.arg.timestamp.second = 0
    /\ last.ret.status = "ok" /\ last.ret.val.second = 68400

\* C11 (as claimed): ... for a timezone-aware v, timestamptz decode(encode(v)) is
\* the same instant as v: every aware v is encoded, and decodes to its instant.
C11_EveryAwareRoundTrips ==
    /\ C11_Naive
    /\ C11_AwareDecode
    /\ C11_SameBytes
    /\ EncodedAware => last.ret.status = "ok"

(***************************************************************************)
(* Claims about the scalar codecs (SpecCodec).                             *)
(***************************************************************************)
\* C12: for both boolean values b, bool_send(b) returns a single byte, 1 for true
\* and 0 for false, and bool_recv of that byte returns b; bool_recv returns true
\* exactly when the byte at offset equals 1.
C12_BoolRoundTrip ==
    /\ last.op = "bool_send" =>
          last.ret = Ok(IF last.arg.value.v[1] THEN <<1>> ELSE <<0>>)
    /\ (last.op = "bool_recv" /\ last.arg.kind = "sent") => last.ret = Ok(last.arg.value)
    /\ (last.op = "bool_recv" /\ last.arg.offset < Len(last.arg.data)) =>
          last.ret = Ok(PyBool(last.arg.data[last.arg.offset + 1] = 1))

(***************************************************************************)
(* Claims about arrays (SpecCodec).                                        *)
(***************************************************************************)
Inspected == last.op = "inspect_array"

\* C13: encoding a rectangular homogeneous array with the encoder returned by
\* inspect_array and decoding the result with array_recv returns the original
\* array; a 2x3 integer array and a one-dimensional text array containing a null
\* both round-trip exactly: inspect_array returns their encoder, and array_recv
\* of their binary form returns them.
C13_ArrayRoundTrip ==
    /\ (Inspected /\ last.arg.value \in {Array2x3, ArrayTextNull}) => last.ret.status = "ok"
    /\ (last.op = "array_recv" /\ last.arg.data = Wire2x3 /\ last.arg.offset = 0
            /\ last.arg.length = Len(Wire2x3)) => last.ret = Ok(Array2x3)
    /\ (last.op = "array_recv" /\ last.arg.data = WireTextNull /\ last.arg.offset = 0
            /\ last.arg.length = Len(WireTextNull)) => last.ret = Ok(ArrayTextNull)

DedicatedEncodeErrors ==
    {"ArrayContentEmptyError", "ArrayContentNotHomogenousError",
     "ArrayContentNotSupportedError", "ArrayDimensionsNotConsistentError"}

\* C14: array encoding fails with a dedicated encode error in each of these
\* cases: no leaf values (array-content-empty error), a non-null leaf of a type
\* other than the first leaf's (not-homogeneous error), sub-sequences of unequal
\* length at the same depth (ragged array).
C14_DedicatedErrors ==
    /\ (Inspected /\ last.arg.value \in {ArrayEmpty, ArrayNestedEmpty})
          => last.ret.status = "ArrayContentEmptyError"
    /\ (Inspected /\ last.arg.value = ArrayMixed)
          => last.ret.status \in {"ok", "ArrayContentNotHomogenousError"}
    /\ (Inspected /\ last.arg.value = ArrayRagged)
          => last.ret.status \in {"ok"} \cup DedicatedEncodeErrors

\* x lies in [-2^(k-1), 2^(k-1) - 1], half being the magnitude of 2^(k-1)
Fits(x, half) ==
    IF x.neg THEN MagCmp(x.mag, half) <= 0 ELSE MagCmp(x.mag, half) < 0
IntLeaves(a) == {a.items[i].big : i \in {j \in 1..Len(a.items) : a.items[j].t = "int"}}
IsIntArray(a) ==
    /\ a.items # <<>> /\ a.items[1].t = "int"
    /\ \A i \in 1..Len(a.items) : a.items[i].t \in {"int", "NoneType"}
NarrowestOid(a) ==
    IF \A x \in IntLeaves(a) : Fits(x, <<128, 0>>) THEN 1005
    ELSE IF \A x \in IntLeaves(a) : Fits(x, <<128, 0, 0, 0>>) THEN 1007
    ELSE IF \A x \in IntLeaves(a) : Fits(x, <<128, 0, 0, 0, 0, 0, 0, 0>>) THEN 1016
    ELSE 0

\* C15: for an array whose leaves are integers (nulls ignored) the inferred array
\* OID is the narrowest that fits every element: 1005 when all lie in
\* [-2^15, 2^15 - 1], else 1007 when all lie in [-2^31, 2^31 - 1], else 1016 when
\* all lie in [-2^63, 2^63 - 1]; only an element outside the 64-bit range makes
\* the inference fail as unsupported.
C15_NarrowestIntArray ==
    (Inspected /\ IsIntArray(last.arg.value)) =>
        IF NarrowestOid(last.arg.value) = 0
        THEN last.ret.status = "ArrayContentNotSupportedError"
        ELSE last.ret.status = "ok" /\ last.ret.val.array_oid = NarrowestOid(last.arg.value)

(***************************************************************************)
(* Claims about runs of 16-bit integers (SpecCodec).                       *)
(***************************************************************************)
\* C16: after constructing a translator with max_pack_shorts_count = N (default
\* 20), pack_shorts and unpack_shorts each hold an entry for every run length k
\* with 1 <= k <= N, and the entry for k packs and unpacks exactly k 16-bit
\* integers (2k bytes), failing on any other argument count.
C16_EntryForEveryRunLength ==
    /\ (last.op = "pack_shorts" /\ last.arg.index <= last.arg.n) =>
          IF Len(last.arg.values) = last.arg.index
          THEN last.ret.status = "ok" /\ Len(last.ret.val) = 2 * last.arg.index
          ELSE last.ret.status = "struct.error"
    /\ (last.op = "unpack_shorts" /\ last.arg.index <= last.arg.n) =>
          IF Len(last.arg.data) >= 2 * last.arg.index
          THEN last.ret.status = "ok" /\ Len(last.ret.val) = last.arg.index
          ELSE last.ret.status = "struct.error"

(***************************************************************************)
(* Claims about the declared length of a value (SpecCodec).                *)
(***************************************************************************)
FixedOps == {"int2_recv", "int4_recv", "int8_recv", "float4_recv", "float8_recv"}
WireWidth(op) ==
    CASE op = "int2_recv" -> 2
      [] op \in {"int4_recv", "float4_recv"} -> 4
      [] op \in {"int8_recv", "float8_recv"} -> 8

\* the bytes the caller declared: data[offset : offset + length]
Declared(a) == Slice(a.data, a.offset, a.length)
SameDeclared(a, b) == a.offset = b.offset /\ a.length = b.length /\ Declared(a) = Declared(b)

Decode(op, a) ==
    CASE op = "int2_recv" -> int2_recv(a.data, a.offset, a.length)
      [] op = "int4_recv" -> int4_recv(a.data, a.offset, a.length)
      [] op = "int8_recv" -> int8_recv(a.data, a.offset, a.length)
      [] op = "float4_recv" -> float4_recv(a.data, a.offset, a.length)
      [] op = "float8_recv" -> float8_recv(a.data, a.offset, a.length)
      [] op = "array_recv" -> array_recv(pg_types, client_encoding, a.data, a.offset, a.length)

\* C17: for every decoder called as decode(data, offset, length), the element
\* reads inside array_recv included, no byte of data at an index >= offset +
\* length influences the result: calls that agree on the declared bytes agree on
\* the result, and if the value's wire width exceeds length the call ends in a
\* decode error.
C17_NothingBeyondLength ==
    /\ (last.op \in FixedOps /\ WireWidth(last.op) > last.arg.length)
          => last.ret.status # "ok"
    /\ last.op \in FixedOps =>
          \A w \in FixedWireArgs : SameDeclared(w, last.arg) => Decode(last.op, w) = last.ret
    /\ last.op = "array_recv" =>
          \A w \in ArrayWireArgs : SameDeclared(w, last.arg) => Decode(last.op, w) = last.ret

(***************************************************************************)
(* Claims about the encoder resolver (SpecResolver).                       *)
(***************************************************************************)
Resolved == last.op = "get_translators"
IsDatetime(v) == v.t = "datetime"
IsAware(v) == "utcoffset" \in DOMAIN v.dt
EncoderOf(v) ==
    IF IsAware(v)
    THEN (IF lastToggle = "floats" THEN "timestamptz_send_float" ELSE "timestamptz_send_integer")
    ELSE (IF lastToggle = "floats" THEN "timestamp_send_float" ELSE "timestamp_send_integer")

\* C18: get_translators resolves a datetime with timezone information to the
\* timestamptz descriptor (OID 1184) and one without to the timestamp descriptor
\* (OID 1114), and the encoder returned is the one of the representation selected
\* by the most recent toggle, for any sequence of toggles before the call.
C18_DatetimeResolution ==
    (Resolved /\ \A i \in 1..Len(last.arg) : IsDatetime(last.arg[i])) =>
        /\ last.ret.status = "ok"
        /\ Len(last.ret.val) = Len(last.arg)
        /\ \A i \in 1..Len(last.arg) :
              /\ last.ret.val[i].oid = (IF IsAware(last.arg[i]) THEN 1184 ELSE 1114)
              /\ last.ret.val[i].fc = 1
              /\ lastToggle # "none" => last.ret.val[i].send = EncoderOf(last.arg[i])

\* C18 witness: after a toggle to floats an aware and a naive datetime were resolved
C18_Witness ==
    /\ Resolved /\ lastToggle = "floats" /\ Len(last.arg) = 2
    /\ IsDatetime(last.arg[1]) /\ IsAware(last.arg[1])
    /\ IsDatetime(last.arg[2]) /\ ~IsAware(last.arg[2])
    /\ last.ret.status = "ok" /\ last.ret.val[1].send = "timestamptz_send_float"

(***************************************************************************)
(* Claims about the timestamptz and interval codecs of the registries      *)
(* (SpecTemporal).                                                         *)
(***************************************************************************)
TimestamptzDecoded ==
    /\ last.op \in {"timestamptz_recv_integer", "timestamptz_recv_float"}
    /\ Len(last.arg.data) - last.arg.offset >= 8

\* the eight wire bytes of the time field, and the offset they state in
\* microseconds: a 64-bit integer of microseconds or a double of seconds
TimeBytes == SubSeq(last.arg.data, last.arg.offset + 1, last.arg.offset + 8)
IntegerDecoder == last.op \in {"timestamptz_recv_integer", "interval_recv_integer"}
TimeMicros ==
    IF IntegerDecoder THEN q_unpack(TimeBytes, 0).val
    ELSE BigMulSmall(float_sixtyfourths(TimeBytes), 15625)
TimeFinite == IntegerDecoder \/ float_exponent(TimeBytes) # 2047
EpochPlusOffset == datetime_add(epoch, timedelta_microseconds(TimeMicros))

\* C19: under whichever representation is active, decoding a timestamptz value
\* (OID 1184) with the registry's current decoder returns a timestamp tagged
\* with the UTC timezone whose instant is epoch + the wire offset, and never ends
\* in an error for an in-range offset.
C19_TimestamptzDecodes ==
    (TimestamptzDecoded /\ TimeFinite /\ EpochPlusOffset.status = "ok") =>
        last.ret = Ok(replace_tzinfo_utc(EpochPlusOffset.val))

IntervalDecoded ==
    /\ last.op \in {"interval_recv_integer", "interval_recv_float"}
    /\ Len(last.arg.data) - last.arg.offset >= 16
DaysField == i_unpack(last.arg.data, last.arg.offset + 8).val
MonthsField == i_unpack(last.arg.data, last.arg.offset + 12).val
\* days days plus the time field, as a plain duration
PlainDuration ==
    LET sm == BigDivMod(TimeMicros, MICROS_PER_SECOND)
    IN  timedelta(DaysField, sm.q, sm.r)
WholeSeconds(value) == value.t = "timedelta" /\ value.td.microseconds = 0

\* C20: under both representations, decoding an interval whose months field is
\* 0 yields a plain duration equal to exactly days days plus the wire time field
\* (microseconds in the integer representation, seconds in the float one), and
\* decoding one whose months field is non-zero yields a calendar interval
\* carrying the same time, days and months; consequently decode(encode(d)) = d
\* for every plain duration d of whole seconds under either representation.
C20_IntervalDecode ==
    /\ (IntervalDecoded /\ TimeFinite /\ MonthsField.mag = <<>>
           /\ PlainDuration.status = "ok")
          => last.ret = PlainDuration
    /\ (IntervalDecoded /\ TimeFinite /\ MonthsField.mag # <<>>)
          => last.ret = Ok(PyInterval(TimeMicros, DaysField, MonthsField))
    /\ (IntervalDecoded /\ last.arg.kind = "sent" /\ WholeSeconds(last.arg.value))
          => last.ret = Ok(last.arg.value)

IntervalEncoded == last.op \in {"interval_send_integer", "interval_send_float"}
\* the names of the attributes a value has
Shape(value) ==
    {name \in {"microseconds", "days", "seconds", "months"} : attributes(value)[name] # None}
PlainDurationShape == {"days", "seconds", "microseconds"}
CalendarIntervalShape == {"microseconds", "days", "months"}

\* C21: interval encoding (integer or float) accepts exactly the two shapes plain
\* duration (days, seconds, microseconds) and calendar interval (microseconds,
\* days, months); a value of any other shape, for example one with microseconds
\* and days but neither seconds nor months, ends in an error and is never encoded
\* with the missing field taken as zero.
C21_ExactlyTwoShapes ==
    IntervalEncoded =>
        (last.ret.status = "ok") <=>
            (Shape(last.arg.value) \in {PlainDurationShape, CalendarIntervalShape})

(***************************************************************************)
(* Claims about the array decoder, step by step (SpecArray).               *)
(***************************************************************************)
ArrayRunning == last.op = "array_recv" /\ last.ret.status = "running"
ArrayFinished == last.op = "array_recv" /\ last.ret.status # "running"
\* the step is an iteration of the element loop, and the length field it reads
ArrayIterating == ArrayRunning /\ last.ret.val.offset < last.ret.val.final_idx
ElementLength == i_unpack(last.arg.data, last.ret.val.offset)
\* the step is the return of a value
ArrayReturning == ArrayRunning /\ last'.ret.status = "ok"

\* the nesting the dimensions declare, outermost dimension first: dims[1]
\* sequences, each holding the nesting of its share of the leaves
RECURSIVE Nest(_, _)
Nest(leaves, dims) ==
    IF Len(dims) <= 1 THEN leaves
    ELSE LET share == Product(Tail(dims))
         IN  [g \in 1..dims[1] |->
                PyList(Nest(SubSeq(leaves, (g - 1) * share + 1, g * share), Tail(dims)))]

NullConsumesFourBytes ==
    (ArrayIterating /\ ElementLength.status = "ok" /\ ElementLength.val = BigFromInt(0 - 1)) =>
        /\ last'.ret.status = "running"
        /\ last'.ret.val.offset = last.ret.val.offset + 4
        /\ last'.ret.val.values = Append(last.ret.val.values, PyNone)

ReturnsDeclaredNesting ==
    last'.ret = Ok(PyList(Nest(last.arg.leaves, last.arg.dims)))

\* no dimension after a non-empty first one has length 0
NoEmptyInnerDimension(dims) ==
    dims = <<>> \/ dims[1] = 0 \/ \A k \in 1..Len(dims) : dims[k] >= 1

\* C22 as stated: for a well-formed binary array of n dimensions d1..dn holding
\* exactly d1*...*dn elements, array_recv returns a nesting of depth n in which
\* every sequence at depth k has length dk and the leaves are the wire elements
\* in wire order; an element length of -1 yields a null leaf and consumes only
\* the 4 length bytes; a zero-dimension array yields an empty sequence.
C22_DeclaredNesting ==
    [][/\ NullConsumesFourBytes
       /\ (ArrayRunning /\ ~ArrayIterating /\ last.arg.kind = "wellformed")
             => ReturnsDeclaredNesting]_vars

\* C22 (amended): the same, for arrays in which no dimension after a non-empty
\* first one has length 0.
C22_DeclaredNestingNonEmpty ==
    [][/\ NullConsumesFourBytes
       /\ (ArrayRunning /\ ~ArrayIterating /\ last.arg.kind = "wellformed"
              /\ NoEmptyInnerDimension(last.arg.dims))
             => ReturnsDeclaredNesting]_vars

C22_Witness ==
    /\ ArrayFinished /\ last.ret.status = "ok" /\ last.arg.kind = "wellformed"
    /\ last.arg.dims = <<1, 2, 3>>
    /\ \E k \in 1..Len(last.arg.leaves) : last.arg.leaves[k] = PyNone
    /\ \E k \in 1..Len(last.arg.leaves) : last.arg.leaves[k] # PyNone

\* the bytes that precede the elements: the header and the dimensions
HeaderBytes == 12 + 8 * Len(last.ret.val.dim_lengths)

\* C23: array_recv terminates on every input buffer and declared length: each
\* iteration of the element loop strictly advances the read offset, so the
\* loop ends after at most (length - header bytes) / 4 iterations (rounded up),
\* also when an element-length field is negative and different from -1.
C23_BoundedIterations ==
    ArrayRunning =>
        4 * (Len(last.ret.val.values) - 1) < last.arg.length - HeaderBytes

RECURSIVE LeafCount(_)
LeafCount(value) ==
    IF value.t # "list" THEN 1
    ELSE IF value.items = <<>> THEN 0
    ELSE LeafCount(Head(value.items)) + LeafCount(PyList(Tail(value.items)))

InnerProduct(dims) == IF Len(dims) <= 1 THEN 1 ELSE Product(Tail(dims))
Multiple(n, p) == IF p = 0 THEN n = 0 ELSE n % p = 0

\* C26: array_recv never silently drops elements: whenever it returns a value,
\* the number of leaves in the returned nesting equals the number of elements
\* read from the wire, and it returns no value when the element count is not a
\* multiple of the product of the declared inner dimension lengths.
C26_NoElementDropped ==
    [][ArrayReturning =>
          /\ LeafCount(last'.ret.val) = Len(last.ret.val.values)
          /\ Multiple(Len(last.ret.val.values), InnerProduct(last.ret.val.dim_lengths))]_vars
(***************************************************************************)
(* The registries of a translator no toggle has run on (SpecTemporal).     *)
(***************************************************************************)
IntegerRepresentation ==
    /\ pg_types[1114].recv = "timestamp_recv_integer"
    /\ pg_types[1184].recv = "timestamptz_recv_integer"
    /\ pg_types[1186].recv = "interval_recv_integer"
    /\ py_types["1114"].send = "timestamp_send_integer"
    /\ py_types["1184"].send = "timestamptz_send_integer"
    /\ py_types["timedelta"].send = "interval_send_integer"
    /\ py_types["Interval"].send = "interval_send_integer"

FloatRepresentation ==
    /\ pg_types[1114].recv = "timestamp_recv_float"
    /\ pg_types[1184].recv = "timestamptz_recv_float"
    /\ pg_types[1186].recv = "interval_recv_float"
    /\ py_types["1114"].send = "timestamp_send_float"
    /\ py_types["1184"].send = "timestamptz_send_float"
    /\ py_types["timedelta"].send = "interval_send_float"
    /\ py_types["Interval"].send = "interval_send_float"

\* a timestamp sent by the registry's encoder has been decoded by its decoder
TimestampSentDecoded ==
    /\ last.op \in {"timestamp_recv_integer", "timestamp_recv_float"}
    /\ last.arg.kind = "sent_timestamp"

\* C24: as long as no toggle has been called on the translator, its decode
\* entries for OIDs 1114, 1184, 1186 and its encode entries for timestamp,
\* timestamptz, timedelta and Interval are all integer codecs or all float
\* codecs, and a timestamp encoded by the registry's encoder for 1114 and then
\* decoded by the registry's decoder for 1114 comes back as the same value.
C24_FreshTranslatorOneRepresentation ==
    lastToggle = "none" =>
        /\ IntegerRepresentation \/ FloatRepresentation
        /\ TimestampSentDecoded => last.ret = Ok(last.arg.timestamp)

(***************************************************************************)
(* Two construct calls on two threads (SpecInterleaved).                   *)
(***************************************************************************)
CallReturned(c) == last[c].ret.status \notin {"notcalled", "running"}

\* what construct returns (or raises) for the arguments a when no other call
\* runs
Alone(a) ==
    _construct(a.database, a.user, a.protocol_version, a.client_encoding,
               IF a.application_name = PyNone THEN PyStr(APPLICATION_NAME)
               ELSE a.application_name, a.kwargs)

\* C25: every construct call that has returned, whether it ran interleaved with
\* the other call or before or after it, has returned exactly what it returns
\* for its own arguments when run alone.
C25_OwnArgumentsOnly ==
    \A c \in Calls : CallReturned(c) => last[c].ret = Alone(args[c])

====
